---- MODULE Spec2Model ----
(***************************************************************************)
(* Real-time quote distribution and price-alert evaluation of the          *)
(* stockmarket server: the WebSocket streaming session (handleWebSocket,   *)
(* checkAndTriggerAlerts), the subscriber registry and its broadcasts      *)
(* (BroadcastAlert, BroadcastToClients), the provider's polling stream     *)
(* (StreamQuotes), the background poller (StartPollingService,             *)
(* pollAndCheckAlerts) and the alert store (GetActiveAlerts, TriggerAlert).*)
(*                                                                         *)
(* Every goroutine is a process with a program counter; a call that does   *)
(* network I/O on a connection (conn.WriteJSON) takes two steps, so that   *)
(* two writes to one connection can be in progress at once when nothing in *)
(* the code excludes it.                                                   *)
(***************************************************************************)
EXTENDS Integers, Sequences, FiniteSets, TLC

\* ------------------------------------------------------------------ bounds
\* Total number of successful GetQuote calls in one behaviour.
MaxQuotes == 2
\* Capacity of a session's providerCh (100 in the program, scaled down so
\* that a full channel is reachable).
SinkCap == 1
\* Total number of failures injected in one behaviour: a peer going away, a
\* request context cancelled, a failed upgrade or a failed config load.
MaxFaults == 1
\* Number of alerts created through the HTTP endpoints in one behaviour.
MaxNewAlerts == 2
\* Number of successful UpdateConfig calls in one behaviour.
MaxUpdates == 1
\* Length of the channel list passed to SendToChannels.
MaxChannels == 2

\* ------------------------------------------------------------ the universe
Sessions == {"s1", "s2"}
Poller == "poller"
Evaluators == Sessions \cup {Poller}
NoOne == "none"
Symbols == {"AAPL", "MSFT"}
Prices == 1..3
AlertIds == 1..2
KnownProviders == {"alphavantage", "yahoo", "finnhub"}
NoQuote == [symbol |-> "", price |-> 0, n |-> 0]
\* Goroutines that call GetOrCreateConfig, and the rows of
\* notification_channels.
Getters == {"g1", "g2"}
ChannelIds == {1, 2}
\* Notification types, channel types (of which "slack" has no notifier)
\* and the channel configurations a list is made of.
NotificationTypes == {"price_alert", "buy_signal"}
RegisteredNotifiers == {"email", "discord", "sms"}
ChannelTypes == {"email", "slack"}
ChannelConfigs ==
  [type : ChannelTypes, enabled : BOOLEAN,
   events : {{}, {"price_alert"}, {"buy_signal"}, {"price_alert", "buy_signal"}}]
ChannelLists == UNION {[1..n -> ChannelConfigs] : n \in 0..MaxChannels}
\* db.configCache = nil
NoCache == [cfg |-> [symbols |-> <<>>, provider |-> "", interval |-> 0],
            channels |-> {}, ver |-> -1]

VARIABLES
  config,        \* the user_config row: [symbols, provider, interval]
  alerts,        \* price_alerts table: id -> [symbol, condition, price, triggered]
  storeErr,      \* TRUE when statements on price_alerts may return an error
  channels,      \* notification_channels table: the ids of its rows
  dbVer,         \* number of UPDATEs of user_config that succeeded
  retVer,        \* history: dbVer of the last UpdateConfig that has returned
  configCache,   \* db.configCache: NoCache (nil) or the cached value
  cacheFresh,    \* time.Since(db.configCacheTime) < configCacheTTL
  gpc,           \* per GetOrCreateConfig caller: "idle", "miss", "fetched", "done"
  gval,          \* per caller: the value fetched, then returned
  gSince,        \* history: per caller, retVer when the call started
  gChan,         \* history: per caller, the channel rows when the call started
  wpc,           \* UpdateConfig: "idle", or "invalidate" after its UPDATE
  dChannels,     \* SendToChannels: the channels argument
  dType,         \* SendToChannels: notification.Type
  dIdx,          \* SendToChannels: position of the range over channels
  dSent,         \* history: per position, the calls of notifier.Send
  dErrs,         \* SendToChannels: len(errs)
  clients,       \* s.clients: the connections registered in the Hub
  clientsMu,     \* holder of s.clientsMu, or NoOne
  connState,     \* per connection: "none", "open", "broken" (peer gone), "closed"
  closeCount,    \* per connection: number of conn.Close() calls
  errWrites,     \* per connection: {type: error} messages written to it
  pc,            \* per evaluator (session handler goroutine, poller goroutine)
  initKind,      \* per session: the info/error message being written before the loop
  cfgSyms,       \* per evaluator: cfg.TrackedSymbols as loaded
  hasCtx,        \* per session: context.WithCancel has run
  cancelled,     \* per session: cancel() has been called
  parentDone,    \* per session: r.Context() is done
  spc, sidx, spend,   \* StreamQuotes goroutine: pc, index in symbols, quote to push
  rpc,           \* read goroutine: pc
  cpc,           \* checkPriceAlerts goroutine of the monolithic handler: pc
  providerCh,    \* per session: the buffered quote channel
  writeMu,       \* per session: writeMu is held
  quote,         \* per evaluator: the quote being processed
  snap, aidx,    \* per evaluator: result of GetActiveAlerts and position in it
  pidx,          \* poller: index in cfg.TrackedSymbols
  pollRuns,      \* history: calls of pollAndCheckAlerts that have not returned
  pollCtxDone,   \* the context passed to StartPollingService is done
  bKind, bTodo, bCur, bOk, bFailed, \* per evaluator: the broadcast in progress
  fetched,       \* number of successful GetQuote calls so far
  faults,        \* number of failures injected so far
  pushed,        \* per session: number of quotes pushed into providerCh
  notifBy,       \* history: evaluator -> alert id -> SendToChannels calls started
  evalFired,     \* history: evaluator -> alert ids fired in the current evaluation
  sending,       \* per evaluator: SendToChannels goroutines it started that still run
  sendErrs,      \* per evaluator: SendToChannels calls of its that returned errors
  alertDue,      \* history: evaluator -> connections registered when its current alert triggered
  alertTo,       \* history: evaluator -> connections the current alert's message was written to
  deliveredQ,    \* history: session -> sequence numbers of quotes written to its client
  evaluatedQ,    \* history: session -> sequence numbers of quotes passed to the evaluator
  exitVia        \* history: session -> the path on which the handler returned

cacheVars == <<channels, dbVer, retVer, configCache, cacheFresh, gpc, gval,
               gSince, gChan, wpc>>
storeVars == <<config, alerts, storeErr, cacheVars>>
dispVars == <<dChannels, dType, dIdx, dSent, dErrs>>
hubVars == <<clients, clientsMu>>
connVars == <<connState, closeCount, errWrites>>
ctxVars == <<hasCtx, cancelled, parentDone>>
streamVars == <<spc, sidx, spend, fetched, pushed>>
Fault == faults < MaxFaults /\ faults' = faults + 1
evalVars == <<quote, snap, aidx>>
pollVars == <<pidx, pollRuns, pollCtxDone>>
bcastVars == <<bKind, bTodo, bCur, bOk, bFailed>>
sendVars == <<sending, sendErrs>>
alertHist == <<alertDue, alertTo>>
histVars == <<notifBy, evalFired, alertHist, sendVars, deliveredQ, evaluatedQ, exitVia>>
vars == <<config, alerts, storeErr, cacheVars, dispVars, clients, clientsMu, connState, closeCount,
          errWrites,
          pc, initKind, cfgSyms, hasCtx, cancelled, parentDone, spc, sidx,
          spend, rpc, cpc, providerCh, writeMu, quote, snap, aidx, pidx, pollRuns,
          pollCtxDone, bKind,
          bTodo, bCur, bOk, bFailed, fetched, faults, pushed, notifBy,
          evalFired, alertDue, alertTo, sending, sendErrs,
          deliveredQ, evaluatedQ, exitVia>>

\* --------------------------------------------------------------- helpers
\* ctx.Done() of a session's derived context is closed.
CtxDone(s) == hasCtx[s] /\ (cancelled[s] \/ parentDone[s])

\* conn.WriteJSON succeeds on a connection that is neither broken nor closed.
WriteOk(c) == connState[c] = "open"

\* conn.ReadMessage returns an error once the peer is gone or the
\* connection is closed.
ReadFails(c) == connState[c] \in {"broken", "closed"}

\* db.GetOrCreateConfig(): the row as fetchConfigFromDB reads it, with
\* "if config.PollingInterval == 0 { config.PollingInterval = 30 }".
GetOrCreateConfig == [config EXCEPT !.interval = IF @ = 0 THEN 30 ELSE @]

\* A removal that flips the membership of the connection.
DeleteClientFlip(m, c) == IF c \in m THEN m \ {c} ELSE m \cup {c}

\* delete(s.clients, conn): the map without the key; a map that does not
\* hold the key is left as it is, and delete returns nothing.
DeleteClient(m, c) == m \ {c}

\* The message checkAndTriggerAlerts writes to its own client for alert a
\* crossed by quote q; the text is kept as the values it is formatted from.
DirectAlertMsg(a, q) ==
  [type |-> "alert",
   title |-> <<"Price Alert", a.symbol>>,
   message |-> <<a.symbol, q.price, a.condition, a.price>>,
   symbol |-> a.symbol,
   price |-> q.price]

\* The message BroadcastAlert builds from its two arguments.
BroadcastAlertMsg(symbol, message) ==
  [type |-> "alert",
   title |-> <<"Price Alert", symbol>>,
   message |-> message,
   symbol |-> symbol]

\* A NewProvider whose default case returns a provider.
NewProviderAny(name) == TRUE

\* market.NewProvider returns an error for any other name.
NewProviderOk(name) == name \in KnownProviders

\* A comparison that misses the threshold itself on the way up.
CrossedAboveStrict(a, q) ==
  CASE a.condition = "above" -> q.price > a.price
    [] a.condition = "below" -> q.price <= a.price
    [] OTHER -> FALSE

\* A comparison that misses the threshold itself on the way down.
CrossedBelowStrict(a, q) ==
  CASE a.condition = "above" -> q.price >= a.price
    [] a.condition = "below" -> q.price < a.price
    [] OTHER -> FALSE

\* The comparison of checkAndTriggerAlerts / pollAndCheckAlerts.
Crossed(a, q) ==
  CASE a.condition = "above" -> q.price >= a.price
    [] a.condition = "below" -> q.price <= a.price
    [] OTHER -> FALSE

\* The ids of a set as an ascending sequence (rowid order of the SELECT).
RECURSIVE SortedSeq(_)
SortedSeq(S) ==
  IF S = {} THEN <<>>
  ELSE LET m == CHOOSE x \in S : \A y \in S : x <= y
       IN <<m>> \o SortedSeq(S \ {m})

\* A listing that forgets the WHERE clause.
GetActiveAlertsUnfiltered == SortedSeq(AlertIds)

\* SELECT ... FROM price_alerts WHERE triggered = 0
GetActiveAlerts == SortedSeq({i \in AlertIds : ~alerts[i].triggered})

\* An update that flips the flag of the row.
TriggerAlertFlip(id) == [alerts EXCEPT ![id].triggered = ~@]

\* UPDATE price_alerts SET triggered = 1 WHERE id = ?
TriggerAlert(id) == [alerts EXCEPT ![id].triggered = TRUE]

\* Number of conn.WriteJSON calls in progress on connection c: the
\* broadcasts that are at c, and the owning handler's own write.
WritesInProgress(c) ==
  Cardinality({e \in Evaluators : pc[e] = "bwriting" /\ bCur[e] = c})
  + (IF pc[c] \in {"initwriting", "qwriting", "awriting"} THEN 1 ELSE 0)

\* First position at or after i of snap[e] whose alert is on the quote's
\* symbol and crossed by it; 0 when there is none.
NextHit(e, i) ==
  LET hits == {j \in i..Len(snap[e]) :
                 /\ alerts[snap[e][j]].symbol = quote[e].symbol
                 /\ Crossed(alerts[snap[e][j]], quote[e])}
  IN IF hits = {} THEN 0 ELSE CHOOSE j \in hits : \A k \in hits : j <= k

\* ------------------------------------------------------------------ Init
AlertTables ==
  { <<[symbol |-> "AAPL", condition |-> "above", price |-> 2, triggered |-> FALSE],
      [symbol |-> "AAPL", condition |-> "below", price |-> 2, triggered |-> FALSE]>> }

Configs ==
  { [symbols |-> <<"AAPL">>, provider |-> "yahoo", interval |-> 30],
    [symbols |-> <<"MSFT", "AAPL">>, provider |-> "yahoo", interval |-> 30],
    [symbols |-> <<>>, provider |-> "yahoo", interval |-> 30],
    [symbols |-> <<"AAPL">>, provider |-> "bloomberg", interval |-> 30],
    [symbols |-> <<"AAPL">>, provider |-> "yahoo", interval |-> 0],
    [symbols |-> <<>>, provider |-> "yahoo", interval |-> 0],
    [symbols |-> <<"AAPL">>, provider |-> "yahoo", interval |-> -1] }

\* The Hub under load: a resolvable provider, with one watched symbol
\* or with none.
HubConfigs ==
  { [symbols |-> <<"AAPL">>, provider |-> "yahoo", interval |-> 30],
    [symbols |-> <<>>, provider |-> "yahoo", interval |-> 30] }

InitBase ==
  /\ config \in Configs
  /\ alerts \in AlertTables
  /\ channels = ChannelIds
  /\ dbVer = 0
  /\ retVer = 0
  /\ configCache = NoCache
  /\ cacheFresh = FALSE
  /\ gpc = [g \in Getters |-> "idle"]
  /\ gval = [g \in Getters |-> NoCache]
  /\ gSince = [g \in Getters |-> 0]
  /\ gChan = [g \in Getters |-> {}]
  /\ wpc = "idle"
  /\ clients = {}
  /\ clientsMu = NoOne
  /\ connState = [s \in Sessions |-> "none"]
  /\ closeCount = [s \in Sessions |-> 0]
  /\ errWrites = [s \in Sessions |-> 0]
  /\ pc = [e \in Evaluators |-> IF e = Poller THEN "wait" ELSE "idle"]
  /\ initKind = [s \in Sessions |-> "none"]
  /\ cfgSyms = [e \in Evaluators |-> <<>>]
  /\ hasCtx = [s \in Sessions |-> FALSE]
  /\ cancelled = [s \in Sessions |-> FALSE]
  /\ parentDone = [s \in Sessions |-> FALSE]
  /\ spc = [s \in Sessions |-> "none"]
  /\ sidx = [s \in Sessions |-> 0]
  /\ spend = [s \in Sessions |-> NoQuote]
  /\ rpc = [s \in Sessions |-> "none"]
  /\ cpc = [s \in Sessions |-> "none"]
  /\ providerCh = [s \in Sessions |-> <<>>]
  /\ writeMu = [s \in Sessions |-> FALSE]
  /\ quote = [e \in Evaluators |-> NoQuote]
  /\ snap = [e \in Evaluators |-> <<>>]
  /\ aidx = [e \in Evaluators |-> 0]
  /\ pidx = 0
  /\ pollRuns = 0
  /\ pollCtxDone = FALSE
  /\ bKind = [e \in Evaluators |-> "none"]
  /\ bTodo = [e \in Evaluators |-> {}]
  /\ bCur = [e \in Evaluators |-> NoOne]
  /\ bOk = [e \in Evaluators |-> {}]
  /\ bFailed = [e \in Evaluators |-> {}]
  /\ fetched = 0
  /\ faults = 0
  /\ pushed = [s \in Sessions |-> 0]
  /\ notifBy = [e \in Evaluators |-> [i \in AlertIds |-> 0]]
  /\ evalFired = [e \in Evaluators |-> {}]
  /\ alertDue = [e \in Evaluators |-> {}]
  /\ sending = [e \in Evaluators |-> 0]
  /\ sendErrs = [e \in Evaluators |-> 0]
  /\ alertTo = [e \in Evaluators |-> {}]
  /\ deliveredQ = [s \in Sessions |-> {}]
  /\ evaluatedQ = [s \in Sessions |-> {}]
  /\ exitVia = [s \in Sessions |-> "none"]

\* No SendToChannels call is modelled step by step.
InitCommon ==
  /\ InitBase
  /\ dChannels = <<>>
  /\ dType = "price_alert"
  /\ dIdx = 1
  /\ dSent = <<>>
  /\ dErrs = 0

Init == InitCommon /\ storeErr = FALSE

\* ------------------------------------------- handleWebSocket: connecting
\* s.upgrader.Upgrade fails: the handler returns before registering.
UpgradeFail(s) ==
  /\ pc[s] = "idle"
  /\ Fault
  /\ pc' = [pc EXCEPT ![s] = "returned"]
  /\ exitVia' = [exitVia EXCEPT ![s] = "upgrade"]
  /\ UNCHANGED <<cpc, storeVars, dispVars, hubVars, connVars, initKind, cfgSyms, ctxVars,
                 streamVars, rpc, providerCh, writeMu, evalVars, pollVars,
                 bcastVars, notifBy, evalFired, alertHist, sendVars, deliveredQ, evaluatedQ>>

\* A registration that does not wait for the lock of the client set.
RegisterNoLock(s) ==
  /\ pc[s] = "idle"
  /\ connState' = [connState EXCEPT ![s] = "open"]
  /\ clients' = clients \cup {s}
  /\ pc' = [pc EXCEPT ![s] = "loadcfg"]
  /\ UNCHANGED <<cpc, faults, storeVars, dispVars, clientsMu, closeCount, errWrites,
                 initKind, cfgSyms,
                 ctxVars, streamVars, rpc, providerCh, writeMu, evalVars,
                 pollVars, bcastVars, histVars>>

\* s.upgrader.Upgrade succeeds; clientsMu.Lock(); s.clients[conn] = true;
\* clientsMu.Unlock()
Register(s) ==
  /\ pc[s] = "idle"
  /\ clientsMu = NoOne
  /\ connState' = [connState EXCEPT ![s] = "open"]
  /\ clients' = clients \cup {s}
  /\ pc' = [pc EXCEPT ![s] = "loadcfg"]
  /\ UNCHANGED <<cpc, faults, storeVars, dispVars, clientsMu, closeCount, errWrites,
                 initKind, cfgSyms,
                 ctxVars, streamVars, rpc, providerCh, writeMu, evalVars,
                 pollVars, bcastVars, histVars>>

\* s.db.GetOrCreateConfig() returns the config; the first message is chosen.
LoadConfig(s) ==
  /\ pc[s] = "loadcfg"
  /\ cfgSyms' = [cfgSyms EXCEPT ![s] = GetOrCreateConfig.symbols]
  /\ initKind' = [initKind EXCEPT ![s] =
       IF Len(GetOrCreateConfig.symbols) = 0 THEN "nosymbols" ELSE "tracking"]
  /\ pc' = [pc EXCEPT ![s] = "initwrite"]
  /\ UNCHANGED <<cpc, faults, storeVars, dispVars, hubVars, connVars, ctxVars, streamVars, rpc,
                 providerCh, writeMu, evalVars, pollVars, bcastVars, histVars>>

\* s.db.GetOrCreateConfig() returns an error: an error message is written.
LoadConfigFail(s) ==
  /\ pc[s] = "loadcfg"
  /\ Fault
  /\ initKind' = [initKind EXCEPT ![s] = "cfgerror"]
  /\ pc' = [pc EXCEPT ![s] = "initwrite"]
  /\ UNCHANGED <<cpc, cfgSyms, storeVars, dispVars, hubVars, connVars, ctxVars, streamVars, rpc,
                 providerCh, writeMu, evalVars, pollVars, bcastVars, histVars>>

\* conn.WriteJSON of an info/error message starts; no lock is taken.
InitWriteBegin(s) ==
  /\ pc[s] = "initwrite"
  /\ pc' = [pc EXCEPT ![s] = "initwriting"]
  /\ UNCHANGED <<cpc, faults, storeVars, dispVars, hubVars, connVars, initKind, cfgSyms, ctxVars,
                 streamVars, rpc, providerCh, writeMu, evalVars, pollVars,
                 bcastVars, histVars>>

\* The write returns (its result is ignored) and the handler goes on:
\* return after an error message, the read loop when nothing is tracked,
\* else NewProvider and, when it resolves, the context and the goroutines.
InitWriteEnd(s) ==
  /\ pc[s] = "initwriting"
  /\ CASE initKind[s] = "cfgerror" ->
            /\ pc' = [pc EXCEPT ![s] = "dereg"]
            /\ exitVia' = [exitVia EXCEPT ![s] = "cfgerror"]
            /\ initKind' = [initKind EXCEPT ![s] = "none"]
            /\ UNCHANGED <<hasCtx, spc, rpc>>
       [] initKind[s] = "providererror" ->
            /\ pc' = [pc EXCEPT ![s] = "dereg"]
            /\ exitVia' = [exitVia EXCEPT ![s] = "providererror"]
            /\ initKind' = [initKind EXCEPT ![s] = "none"]
            /\ UNCHANGED <<hasCtx, spc, rpc>>
       [] initKind[s] = "nosymbols" ->
            /\ pc' = [pc EXCEPT ![s] = "readloop"]
            /\ initKind' = [initKind EXCEPT ![s] = "none"]
            /\ UNCHANGED <<hasCtx, spc, rpc, exitVia>>
       [] OTHER ->
            IF NewProviderOk(GetOrCreateConfig.provider)
            THEN /\ hasCtx' = [hasCtx EXCEPT ![s] = TRUE]
                 /\ spc' = [spc EXCEPT ![s] = "tick"]
                 /\ rpc' = [rpc EXCEPT ![s] = "reading"]
                 /\ pc' = [pc EXCEPT ![s] = "select"]
                 /\ initKind' = [initKind EXCEPT ![s] = "none"]
                 /\ UNCHANGED exitVia
            ELSE /\ initKind' = [initKind EXCEPT ![s] = "providererror"]
                 /\ pc' = [pc EXCEPT ![s] = "initwrite"]
                 /\ UNCHANGED <<hasCtx, spc, rpc, exitVia>>
  /\ errWrites' = IF initKind[s] \in {"cfgerror", "providererror"}
                  THEN [errWrites EXCEPT ![s] = @ + 1]
                  ELSE errWrites
  /\ UNCHANGED <<cpc, faults, storeVars, dispVars, hubVars, connState, closeCount, cfgSyms,
                 cancelled, parentDone,
                 sidx, spend, fetched, pushed, providerCh, writeMu, evalVars,
                 pollVars, bcastVars, notifBy, evalFired, alertHist, sendVars, deliveredQ,
                 evaluatedQ>>

\* An empty-watchlist session that returns without waiting for its peer.
ReadLoopExitAtOnce(s) ==
  /\ pc[s] = "readloop"
  /\ pc' = [pc EXCEPT ![s] = "dereg"]
  /\ exitVia' = [exitVia EXCEPT ![s] = "nosymbols"]
  /\ UNCHANGED <<cpc, faults, storeVars, dispVars, hubVars, connVars, initKind, cfgSyms, ctxVars,
                 streamVars, rpc, providerCh, writeMu, evalVars, pollVars,
                 bcastVars, notifBy, evalFired, alertHist, sendVars, deliveredQ, evaluatedQ>>

\* The empty-watchlist loop: conn.ReadMessage until it returns an error.
ReadLoopExit(s) ==
  /\ pc[s] = "readloop"
  /\ ReadFails(s)
  /\ pc' = [pc EXCEPT ![s] = "dereg"]
  /\ exitVia' = [exitVia EXCEPT ![s] = "nosymbols"]
  /\ UNCHANGED <<cpc, faults, storeVars, dispVars, hubVars, connVars, initKind, cfgSyms, ctxVars,
                 streamVars, rpc, providerCh, writeMu, evalVars, pollVars,
                 bcastVars, notifBy, evalFired, alertHist, sendVars, deliveredQ, evaluatedQ>>

\* --------------------------------------------- handleWebSocket: the loop
\* select: case <-ctx.Done(): return
SelectDone(s) ==
  /\ pc[s] = "select"
  /\ CtxDone(s)
  /\ pc' = [pc EXCEPT ![s] = "cancel"]
  /\ exitVia' = [exitVia EXCEPT ![s] = "ctxdone"]
  /\ UNCHANGED <<cpc, faults, storeVars, dispVars, hubVars, connVars, initKind, cfgSyms, ctxVars,
                 streamVars, rpc, providerCh, writeMu, evalVars, pollVars,
                 bcastVars, notifBy, evalFired, alertHist, sendVars, deliveredQ, evaluatedQ>>

\* Variant of SelectQuote: the evaluation is left to another goroutine and
\* the loop receives again right after its write.
SelectQuoteEarly(s) ==
  /\ pc[s] \in {"select", "eval"}
  /\ providerCh[s] # <<>>
  /\ ~writeMu[s]
  /\ quote' = [quote EXCEPT ![s] = Head(providerCh[s])]
  /\ providerCh' = [providerCh EXCEPT ![s] = Tail(providerCh[s])]
  /\ writeMu' = [writeMu EXCEPT ![s] = TRUE]
  /\ pc' = [pc EXCEPT ![s] = "qwriting"]
  /\ UNCHANGED <<cpc, faults, storeVars, dispVars, hubVars, connVars, initKind, cfgSyms,
                 ctxVars, streamVars, rpc, snap, aidx, pollVars, bcastVars,
                 histVars>>

\* select: case quote := <-providerCh; writeMu.Lock();
\* conn.WriteJSON({type: quote}) starts.
SelectQuote(s) ==
  /\ pc[s] = "select"
  /\ providerCh[s] # <<>>
  /\ ~writeMu[s]
  /\ quote' = [quote EXCEPT ![s] = Head(providerCh[s])]
  /\ providerCh' = [providerCh EXCEPT ![s] = Tail(providerCh[s])]
  /\ writeMu' = [writeMu EXCEPT ![s] = TRUE]
  /\ pc' = [pc EXCEPT ![s] = "qwriting"]
  /\ UNCHANGED <<cpc, faults, storeVars, dispVars, hubVars, connVars, initKind, cfgSyms,
                 ctxVars, streamVars, rpc, snap, aidx, pollVars, bcastVars,
                 histVars>>

\* A loop that evaluates the quote whatever the write returned.
QuoteWriteEndIgnoresError(s) ==
  /\ pc[s] = "qwriting"
  /\ writeMu' = [writeMu EXCEPT ![s] = FALSE]
  /\ deliveredQ' = IF WriteOk(s)
                   THEN [deliveredQ EXCEPT ![s] = @ \cup {quote[s].n}]
                   ELSE deliveredQ
  /\ pc' = [pc EXCEPT ![s] = "eval"]
  /\ UNCHANGED <<exitVia, quote>>
  /\ UNCHANGED <<cpc, faults, storeVars, dispVars, hubVars, connVars, initKind,
                 cfgSyms, ctxVars,
                 streamVars, rpc, providerCh, snap, aidx, pollVars, bcastVars,
                 notifBy, evalFired, alertHist, sendVars, evaluatedQ>>

\* The write returns; writeMu.Unlock(); on an error the handler returns,
\* else it calls checkAndTriggerAlerts.
QuoteWriteEnd(s) ==
  /\ pc[s] = "qwriting"
  /\ writeMu' = [writeMu EXCEPT ![s] = FALSE]
  /\ IF WriteOk(s)
     THEN /\ deliveredQ' = [deliveredQ EXCEPT ![s] = @ \cup {quote[s].n}]
          /\ pc' = [pc EXCEPT ![s] = "eval"]
          /\ UNCHANGED exitVia
     ELSE /\ pc' = [pc EXCEPT ![s] = "cancel"]
          /\ exitVia' = [exitVia EXCEPT ![s] = "writeerror"]
          /\ UNCHANGED deliveredQ
  /\ quote' = [quote EXCEPT ![s] = IF WriteOk(s) THEN @ ELSE NoQuote]
  /\ UNCHANGED <<cpc, faults, storeVars, dispVars, hubVars, connVars, initKind, cfgSyms, ctxVars,
                 streamVars, rpc, providerCh, snap, aidx, pollVars, bcastVars,
                 notifBy, evalFired, alertHist, sendVars, evaluatedQ>>

\* ------------------------------------- handleWebSocket: deferred functions
\* defer cancel()
DeferCancel(s) ==
  /\ pc[s] = "cancel"
  /\ cancelled' = [cancelled EXCEPT ![s] = TRUE]
  /\ pc' = [pc EXCEPT ![s] = "dereg"]
  /\ UNCHANGED <<cpc, faults, storeVars, dispVars, hubVars, connVars, initKind, cfgSyms, hasCtx,
                 parentDone, streamVars, rpc, providerCh, writeMu, evalVars,
                 pollVars, bcastVars, histVars>>

\* A removal that does not wait for the lock of the client set.
DeregisterNoLock(s) ==
  /\ pc[s] = "dereg"
  /\ clients' = DeleteClient(clients, s)
  /\ pc' = [pc EXCEPT ![s] = "close"]
  /\ UNCHANGED <<cpc, faults, storeVars, dispVars, clientsMu, connVars, initKind, cfgSyms, ctxVars,
                 streamVars, rpc, providerCh, writeMu, evalVars, pollVars,
                 bcastVars, histVars>>

\* A cleanup that closes the connection and leaves it in the client set.
DeregisterKeepsEntry(s) ==
  /\ pc[s] = "dereg"
  /\ clientsMu = NoOne
  /\ pc' = [pc EXCEPT ![s] = "close"]
  /\ UNCHANGED <<cpc, faults, storeVars, dispVars, hubVars, connVars, initKind, cfgSyms, ctxVars,
                 streamVars, rpc, providerCh, writeMu, evalVars, pollVars,
                 bcastVars, histVars>>

\* clientsMu.Lock(); delete(s.clients, conn); clientsMu.Unlock()
Deregister(s) ==
  /\ pc[s] = "dereg"
  /\ clientsMu = NoOne
  /\ clients' = DeleteClient(clients, s)
  /\ pc' = [pc EXCEPT ![s] = "close"]
  /\ UNCHANGED <<cpc, faults, storeVars, dispVars, clientsMu, connVars, initKind, cfgSyms, ctxVars,
                 streamVars, rpc, providerCh, writeMu, evalVars, pollVars,
                 bcastVars, histVars>>

\* conn.Close(); the handler has returned.
CloseConn(s) ==
  /\ pc[s] = "close"
  /\ connState' = [connState EXCEPT ![s] = "closed"]
  /\ closeCount' = [closeCount EXCEPT ![s] = @ + 1]
  /\ pc' = [pc EXCEPT ![s] = "returned"]
  /\ UNCHANGED <<cpc, faults, storeVars, dispVars, hubVars, errWrites, initKind, cfgSyms,
                 ctxVars, streamVars, rpc, providerCh, writeMu, evalVars,
                 pollVars, bcastVars, histVars>>

\* ------------------------------------------------- the read goroutine
\* conn.ReadMessage returns an error: cancel() and return.
ReaderExit(s) ==
  /\ rpc[s] = "reading"
  /\ ReadFails(s)
  /\ cancelled' = [cancelled EXCEPT ![s] = TRUE]
  /\ rpc' = [rpc EXCEPT ![s] = "done"]
  /\ UNCHANGED <<cpc, faults, storeVars, dispVars, hubVars, connVars, pc, initKind, cfgSyms, hasCtx,
                 parentDone, streamVars, providerCh, writeMu, evalVars,
                 pollVars, bcastVars, histVars>>

\* ------------------------------------------------ provider.StreamQuotes
\* Where the symbol loop goes after position i of the batch.
AfterSymbol(s, i) == IF i >= Len(cfgSyms[s]) THEN "tick" ELSE "fetch"
NextIndex(s, i) == IF i >= Len(cfgSyms[s]) THEN 0 ELSE i + 1

\* The symbol GetQuote is called for.
FetchIndex(s) == sidx[s]

\* select: case <-ticker.C: the batch starts at the first symbol.
StreamTick(s) ==
  /\ spc[s] = "tick"
  /\ sidx' = [sidx EXCEPT ![s] = 1]
  /\ spc' = [spc EXCEPT ![s] = "fetch"]
  /\ UNCHANGED <<cpc, faults, storeVars, dispVars, hubVars, connVars, pc, initKind, cfgSyms,
                 ctxVars, spend, fetched, pushed, rpc, providerCh, writeMu,
                 evalVars, pollVars, bcastVars, histVars>>

\* Variant of StreamFetchFail: a failed fetch ends the batch.
StreamFetchFailStops(s) ==
  /\ spc[s] = "fetch"
  /\ sidx' = [sidx EXCEPT ![s] = 0]
  /\ spc' = [spc EXCEPT ![s] = "tick"]
  /\ UNCHANGED <<cpc, faults, storeVars, dispVars, hubVars, connVars, pc, initKind, cfgSyms,
                 ctxVars, spend, fetched, pushed, rpc, providerCh, writeMu,
                 evalVars, pollVars, bcastVars, histVars>>

\* GetQuote(ctx, symbol) fails: continue with the next symbol.
StreamFetchFail(s) ==
  /\ spc[s] = "fetch"
  /\ sidx' = [sidx EXCEPT ![s] = NextIndex(s, FetchIndex(s))]
  /\ spc' = [spc EXCEPT ![s] = AfterSymbol(s, FetchIndex(s))]
  /\ UNCHANGED <<cpc, faults, storeVars, dispVars, hubVars, connVars, pc, initKind, cfgSyms,
                 ctxVars, spend, fetched, pushed, rpc, providerCh, writeMu,
                 evalVars, pollVars, bcastVars, histVars>>

\* GetQuote(ctx, symbol) returns a quote.
StreamFetchOk(s) ==
  /\ spc[s] = "fetch"
  /\ fetched < MaxQuotes
  /\ \E p \in Prices :
       spend' = [spend EXCEPT ![s] =
                   [symbol |-> cfgSyms[s][FetchIndex(s)], price |-> p,
                    n |-> pushed[s] + 1]]
  /\ fetched' = fetched + 1
  /\ spc' = [spc EXCEPT ![s] = "push"]
  /\ UNCHANGED <<cpc, faults, storeVars, dispVars, hubVars, connVars, pc, initKind, cfgSyms,
                 ctxVars, sidx, pushed, rpc, providerCh, writeMu, evalVars,
                 pollVars, bcastVars, histVars>>

\* A send that gives up its quote when the channel is full.
StreamPushDropNewest(s) ==
  /\ spc[s] = "push"
  /\ providerCh' = [providerCh EXCEPT ![s] =
       IF Len(@) < SinkCap THEN Append(@, spend[s]) ELSE @]
  /\ pushed' = [pushed EXCEPT ![s] = @ + 1]
  /\ spend' = [spend EXCEPT ![s] = NoQuote]
  /\ sidx' = [sidx EXCEPT ![s] = NextIndex(s, sidx[s])]
  /\ spc' = [spc EXCEPT ![s] = AfterSymbol(s, sidx[s])]
  /\ UNCHANGED <<cpc, faults, storeVars, dispVars, hubVars, connVars, pc, initKind, cfgSyms, ctxVars,
                 fetched, rpc, writeMu, evalVars, pollVars, bcastVars,
                 histVars>>

\* A send that makes room in a full channel by discarding its oldest quote.
StreamPushDropOldest(s) ==
  /\ spc[s] = "push"
  /\ providerCh' = [providerCh EXCEPT ![s] =
       Append(IF Len(@) < SinkCap THEN @ ELSE Tail(@), spend[s])]
  /\ pushed' = [pushed EXCEPT ![s] = @ + 1]
  /\ spend' = [spend EXCEPT ![s] = NoQuote]
  /\ sidx' = [sidx EXCEPT ![s] = NextIndex(s, sidx[s])]
  /\ spc' = [spc EXCEPT ![s] = AfterSymbol(s, sidx[s])]
  /\ UNCHANGED <<cpc, faults, storeVars, dispVars, hubVars, connVars, pc, initKind, cfgSyms, ctxVars,
                 fetched, rpc, writeMu, evalVars, pollVars, bcastVars,
                 histVars>>

\* select: case ch <- *quote (blocks while the channel is full).
StreamPush(s) ==
  /\ spc[s] = "push"
  /\ Len(providerCh[s]) < SinkCap
  /\ providerCh' = [providerCh EXCEPT ![s] = Append(@, spend[s])]
  /\ pushed' = [pushed EXCEPT ![s] = @ + 1]
  /\ spend' = [spend EXCEPT ![s] = NoQuote]
  /\ sidx' = [sidx EXCEPT ![s] = NextIndex(s, sidx[s])]
  /\ spc' = [spc EXCEPT ![s] = AfterSymbol(s, sidx[s])]
  /\ UNCHANGED <<cpc, faults, storeVars, dispVars, hubVars, connVars, pc, initKind, cfgSyms, ctxVars,
                 fetched, rpc, writeMu, evalVars, pollVars, bcastVars,
                 histVars>>

\* A stream that looks at ctx.Done() at its ticker only and pushes with a
\* plain channel send.
StreamCancelledAtTickOnly(s) ==
  /\ spc[s] = "tick"
  /\ CtxDone(s)
  /\ spc' = [spc EXCEPT ![s] = "done"]
  /\ sidx' = [sidx EXCEPT ![s] = 0]
  /\ spend' = [spend EXCEPT ![s] = NoQuote]
  /\ UNCHANGED <<cpc, faults, storeVars, dispVars, hubVars, connVars, pc, initKind, cfgSyms, ctxVars,
                 fetched, pushed, rpc, providerCh, writeMu,
                 evalVars, pollVars, bcastVars, histVars>>

\* select: case <-ctx.Done(): return ctx.Err(), at the ticker or at the push.
StreamCancelled(s) ==
  /\ spc[s] \in {"tick", "push"}
  /\ CtxDone(s)
  /\ spc' = [spc EXCEPT ![s] = "done"]
  /\ sidx' = [sidx EXCEPT ![s] = 0]
  /\ spend' = [spend EXCEPT ![s] = NoQuote]
  /\ UNCHANGED <<cpc, faults, storeVars, dispVars, hubVars, connVars, pc, initKind, cfgSyms, ctxVars,
                 fetched, pushed, rpc, providerCh, writeMu,
                 evalVars, pollVars, bcastVars, histVars>>

\* ------------------------------------------------------ the environment
\* The peer goes away: reads and writes on the connection fail from now on.
PeerDisconnect(s) ==
  /\ connState[s] = "open"
  /\ Fault
  /\ connState' = [connState EXCEPT ![s] = "broken"]
  /\ UNCHANGED <<cpc, storeVars, dispVars, hubVars, closeCount, errWrites, pc, initKind,
                 cfgSyms,
                 ctxVars, streamVars, rpc, providerCh, writeMu, evalVars,
                 pollVars, bcastVars, histVars>>

\* The request context r.Context() is cancelled.
ParentCancel(s) ==
  /\ pc[s] \notin {"idle", "returned"}
  /\ ~parentDone[s]
  /\ Fault
  /\ parentDone' = [parentDone EXCEPT ![s] = TRUE]
  /\ UNCHANGED <<cpc, storeVars, dispVars, hubVars, connVars, pc, initKind, cfgSyms, hasCtx,
                 cancelled, streamVars, rpc, providerCh, writeMu, evalVars,
                 pollVars, bcastVars, histVars>>

\* ----------------------------- checkAndTriggerAlerts / the poller's copy
\* Outcomes of a statement on price_alerts: TRUE is success.
StoreOutcomes == IF storeErr THEN BOOLEAN ELSE {TRUE}

\* Where the poller's symbol loop goes after position i.
PollNextPc(i) == IF i >= Len(cfgSyms[Poller]) THEN "wait" ELSE "pfetch"

\* The evaluation of one quote is over: the session goes back to its select,
\* the poller to the next symbol (or, after the last one, to its ticker).
\* The locals of the evaluation go out of scope.
EvalReturn(e) ==
  /\ quote' = [quote EXCEPT ![e] = NoQuote]
  /\ snap' = [snap EXCEPT ![e] = <<>>]
  /\ aidx' = [aidx EXCEPT ![e] = 0]
  /\ IF e = Poller
     THEN /\ pidx' = IF pidx >= Len(cfgSyms[Poller]) THEN 0 ELSE pidx + 1
          /\ cfgSyms' = IF pidx >= Len(cfgSyms[Poller])
                        THEN [cfgSyms EXCEPT ![Poller] = <<>>] ELSE cfgSyms
          /\ pc' = [pc EXCEPT ![e] = PollNextPc(pidx)]
          /\ pollRuns' = IF PollNextPc(pidx) = "wait" THEN pollRuns - 1
                         ELSE pollRuns
     ELSE /\ pc' = [pc EXCEPT ![e] = "select"]
          /\ UNCHANGED <<pidx, pollRuns, cfgSyms>>


\* An evaluation against the alert set as it was when the session
\* connected, without a read of the store.
EvalStartLoadedSet(e) ==
  /\ pc[e] = "eval"
  /\ evaluatedQ' = IF e \in Sessions
                   THEN [evaluatedQ EXCEPT ![e] = @ \cup {quote[e].n}]
                   ELSE evaluatedQ
  /\ snap' = [snap EXCEPT ![e] = SortedSeq(AlertIds)]
  /\ aidx' = [aidx EXCEPT ![e] = 1]
  /\ pc' = [pc EXCEPT ![e] = "alertloop"]
  /\ UNCHANGED <<quote, pidx, pollRuns, cfgSyms>>
  /\ UNCHANGED <<cpc, faults, storeVars, dispVars, hubVars, connVars, initKind, ctxVars,
                 streamVars, rpc, providerCh, writeMu, pollCtxDone,
                 bcastVars, notifBy, evalFired, alertHist, sendVars, deliveredQ, exitVia>>

\* An evaluation that the poller skips while nobody is connected.
EvalStartNeedsClients(e) ==
  /\ pc[e] = "eval"
  /\ evaluatedQ' = IF e \in Sessions
                   THEN [evaluatedQ EXCEPT ![e] = @ \cup {quote[e].n}]
                   ELSE evaluatedQ
  /\ \E ok \in StoreOutcomes :
       IF ok /\ ~(e = Poller /\ clients = {})
       THEN /\ snap' = [snap EXCEPT ![e] = GetActiveAlerts]
            /\ aidx' = [aidx EXCEPT ![e] = 1]
            /\ pc' = [pc EXCEPT ![e] = "alertloop"]
            /\ UNCHANGED <<quote, pidx, pollRuns, cfgSyms>>
       ELSE EvalReturn(e)
  /\ UNCHANGED <<cpc, faults, storeVars, dispVars, hubVars, connVars, initKind, ctxVars,
                 streamVars, rpc, providerCh, writeMu, pollCtxDone,
                 bcastVars, notifBy, evalFired, alertHist, sendVars, deliveredQ, exitVia>>

\* alerts, err := s.db.GetActiveAlerts(); on an error the session returns
\* from checkAndTriggerAlerts and the poller continues with the next symbol.
EvalStart(e) ==
  /\ pc[e] = "eval"
  /\ evaluatedQ' = IF e \in Sessions
                   THEN [evaluatedQ EXCEPT ![e] = @ \cup {quote[e].n}]
                   ELSE evaluatedQ
  /\ \E ok \in StoreOutcomes :
       IF ok
       THEN /\ snap' = [snap EXCEPT ![e] = GetActiveAlerts]
            /\ aidx' = [aidx EXCEPT ![e] = 1]
            /\ pc' = [pc EXCEPT ![e] = "alertloop"]
            /\ UNCHANGED <<quote, pidx, pollRuns, cfgSyms>>
       ELSE EvalReturn(e)
  /\ UNCHANGED <<cpc, faults, storeVars, dispVars, hubVars, connVars, initKind, ctxVars,
                 streamVars, rpc, providerCh, writeMu, pollCtxDone,
                 bcastVars, notifBy, evalFired, alertHist, sendVars, deliveredQ, exitVia>>

\* for _, alert := range alerts: skip the alerts on another symbol and the
\* ones the quote does not cross; at the first crossed one call
\* s.db.TriggerAlert(alert.ID), whose error is discarded. A session then
\* takes writeMu and starts writing the alert to its own client; the poller
\* goes to BroadcastAlert.
AlertLoop(e) ==
  /\ pc[e] = "alertloop"
  /\ LET h == NextHit(e, aidx[e]) IN
       IF h = 0
       THEN /\ EvalReturn(e)
            /\ evalFired' = [evalFired EXCEPT ![e] = {}]
            /\ UNCHANGED <<alerts, bKind, writeMu, alertHist>>
       ELSE /\ aidx' = [aidx EXCEPT ![e] = h]
            /\ alertDue' = [alertDue EXCEPT ![e] = clients]
            /\ UNCHANGED alertTo
            /\ \E ok \in StoreOutcomes :
                 alerts' = IF ok THEN TriggerAlert(snap[e][h]) ELSE alerts
            /\ IF e = Poller
               THEN /\ pc' = [pc EXCEPT ![e] = "bcast"]
                    /\ bKind' = [bKind EXCEPT ![e] = "alert"]
                    /\ UNCHANGED writeMu
               ELSE /\ ~writeMu[e]
                    /\ writeMu' = [writeMu EXCEPT ![e] = TRUE]
                    /\ pc' = [pc EXCEPT ![e] = "awriting"]
                    /\ UNCHANGED bKind
            /\ UNCHANGED <<pidx, pollRuns, cfgSyms, quote, snap, evalFired>>
  /\ UNCHANGED <<cpc, faults, config, storeErr, cacheVars, dispVars, hubVars, connVars, initKind,
                 ctxVars, streamVars, rpc, providerCh,
                 pollCtxDone, bTodo, bCur, bOk, bFailed, notifBy, sendVars, deliveredQ,
                 evaluatedQ, exitVia>>

\* The write returns (result ignored); writeMu.Unlock(); BroadcastAlert next.
AlertWriteEnd(s) ==
  /\ pc[s] = "awriting"
  /\ writeMu' = [writeMu EXCEPT ![s] = FALSE]
  /\ bKind' = [bKind EXCEPT ![s] = "alert"]
  /\ pc' = [pc EXCEPT ![s] = "bcast"]
  /\ alertTo' = [alertTo EXCEPT ![s] = @ \cup {s}]
  /\ UNCHANGED <<cpc, faults, storeVars, dispVars, hubVars, connVars, initKind, cfgSyms, ctxVars,
                 streamVars, rpc, providerCh, evalVars, pollVars, bTodo, bCur,
                 bOk, bFailed, notifBy, sendVars, evalFired, alertDue, deliveredQ,
                 evaluatedQ, exitVia>>

\* Variant of Notify: the range over the alerts ends at the first one fired.
NotifyEndsPass(e) ==
  /\ pc[e] = "notify"
  /\ notifBy' = [notifBy EXCEPT ![e][snap[e][aidx[e]]] = @ + 1]
  /\ sending' = [sending EXCEPT ![e] = @ + 1]
  /\ evalFired' = [evalFired EXCEPT ![e] = @ \cup {snap[e][aidx[e]]}]
  /\ alertDue' = [alertDue EXCEPT ![e] = {}]
  /\ alertTo' = [alertTo EXCEPT ![e] = {}]
  /\ aidx' = [aidx EXCEPT ![e] = Len(snap[e]) + 1]
  /\ pc' = [pc EXCEPT ![e] = "alertloop"]
  /\ UNCHANGED <<cpc, faults, storeVars, dispVars, hubVars, connVars, initKind, cfgSyms, ctxVars,
                 streamVars, rpc, providerCh, writeMu, quote, snap, pollVars,
                 bcastVars, deliveredQ, evaluatedQ, exitVia, sendErrs>>

\* Variant of Notify: SendToChannels is called in the evaluator's own
\* goroutine and a returned error ends the pass.
NotifyInline(e) ==
  /\ pc[e] = "notify"
  /\ notifBy' = [notifBy EXCEPT ![e][snap[e][aidx[e]]] = @ + 1]
  /\ evalFired' = [evalFired EXCEPT ![e] = @ \cup {snap[e][aidx[e]]}]
  /\ alertDue' = [alertDue EXCEPT ![e] = {}]
  /\ alertTo' = [alertTo EXCEPT ![e] = {}]
  /\ \E ok \in BOOLEAN :
       /\ sendErrs' = IF ok THEN sendErrs ELSE [sendErrs EXCEPT ![e] = @ + 1]
       /\ aidx' = [aidx EXCEPT ![e] = IF ok THEN @ + 1 ELSE Len(snap[e]) + 1]
  /\ pc' = [pc EXCEPT ![e] = "alertloop"]
  /\ UNCHANGED <<cpc, faults, storeVars, dispVars, hubVars, connVars, initKind, cfgSyms, ctxVars,
                 streamVars, rpc, providerCh, writeMu, quote, snap, pollVars,
                 bcastVars, deliveredQ, evaluatedQ, exitVia, sending>>

\* go s.notifyService.SendToChannels(notification, cfg.NotificationChannels)
Notify(e) ==
  /\ pc[e] = "notify"
  /\ notifBy' = [notifBy EXCEPT ![e][snap[e][aidx[e]]] = @ + 1]
  /\ sending' = [sending EXCEPT ![e] = @ + 1]
  /\ evalFired' = [evalFired EXCEPT ![e] = @ \cup {snap[e][aidx[e]]}]
  /\ alertDue' = [alertDue EXCEPT ![e] = {}]
  /\ alertTo' = [alertTo EXCEPT ![e] = {}]
  /\ aidx' = [aidx EXCEPT ![e] = @ + 1]
  /\ pc' = [pc EXCEPT ![e] = "alertloop"]
  /\ UNCHANGED <<cpc, faults, storeVars, dispVars, hubVars, connVars, initKind, cfgSyms, ctxVars,
                 streamVars, rpc, providerCh, writeMu, quote, snap, pollVars,
                 bcastVars, deliveredQ, evaluatedQ, exitVia, sendErrs>>

\* A SendToChannels goroutine started by evaluator e returns its []error,
\* empty or not; nobody receives the result.
DispatchEnd(e) ==
  /\ sending[e] > 0
  /\ sending' = [sending EXCEPT ![e] = @ - 1]
  /\ \E ok \in BOOLEAN :
       sendErrs' = IF ok THEN sendErrs ELSE [sendErrs EXCEPT ![e] = @ + 1]
  /\ UNCHANGED <<cpc, faults, storeVars, dispVars, hubVars, connVars, pc, initKind, cfgSyms,
                 ctxVars, streamVars, rpc, providerCh, writeMu, evalVars,
                 pollVars, bcastVars, notifBy, evalFired, alertHist,
                 deliveredQ, evaluatedQ, exitVia>>

\* --------------------------------------- BroadcastAlert / BroadcastToClients
\* s.clientsMu.Lock(); the range over s.clients starts.
BroadcastLock(e) ==
  /\ pc[e] = "bcast"
  /\ clientsMu = NoOne
  /\ clientsMu' = e
  /\ bTodo' = [bTodo EXCEPT ![e] = clients]
  /\ pc' = [pc EXCEPT ![e] = "bloop"]
  /\ UNCHANGED <<cpc, faults, storeVars, dispVars, clients, connVars, initKind, cfgSyms, ctxVars,
                 streamVars, rpc, providerCh, writeMu, evalVars, pollVars,
                 bKind, bCur, bOk, bFailed, histVars>>

\* The next connection of the range (map order is arbitrary):
\* conn.WriteJSON(msg) starts.
BroadcastWriteBegin(e) ==
  /\ pc[e] = "bloop"
  /\ \E c \in bTodo[e] : bCur' = [bCur EXCEPT ![e] = c]
  /\ pc' = [pc EXCEPT ![e] = "bwriting"]
  /\ UNCHANGED <<cpc, faults, storeVars, dispVars, hubVars, connVars, initKind, cfgSyms, ctxVars,
                 streamVars, rpc, providerCh, writeMu, evalVars, pollVars,
                 bKind, bTodo, bOk, bFailed, histVars>>

\* A range that gives up at the first write that fails.
BroadcastWriteEndAbort(e) ==
  /\ pc[e] = "bwriting"
  /\ IF WriteOk(bCur[e])
     THEN /\ bTodo' = [bTodo EXCEPT ![e] = @ \ {bCur[e]}]
          /\ bOk' = [bOk EXCEPT ![e] = @ \cup {bCur[e]}]
          /\ UNCHANGED bFailed
     ELSE /\ bTodo' = [bTodo EXCEPT ![e] = {}]
          /\ bFailed' = [bFailed EXCEPT ![e] = @ \cup {bCur[e]}]
          /\ UNCHANGED bOk
  /\ bCur' = [bCur EXCEPT ![e] = NoOne]
  /\ pc' = [pc EXCEPT ![e] = "bloop"]
  /\ alertTo' = IF bKind[e] = "alert"
                THEN [alertTo EXCEPT ![e] = @ \cup {bCur[e]}]
                ELSE alertTo
  /\ UNCHANGED <<cpc, faults, storeVars, dispVars, hubVars, connVars, initKind, cfgSyms, ctxVars,
                 streamVars, rpc, providerCh, writeMu, evalVars, pollVars,
                 bKind, notifBy, sendVars, evalFired, alertDue, deliveredQ, evaluatedQ,
                 exitVia>>

\* The write returns; an error is logged and the range goes on.
BroadcastWriteEnd(e) ==
  /\ pc[e] = "bwriting"
  /\ bTodo' = [bTodo EXCEPT ![e] = @ \ {bCur[e]}]
  /\ IF WriteOk(bCur[e])
     THEN /\ bOk' = [bOk EXCEPT ![e] = @ \cup {bCur[e]}]
          /\ UNCHANGED bFailed
     ELSE /\ bFailed' = [bFailed EXCEPT ![e] = @ \cup {bCur[e]}]
          /\ UNCHANGED bOk
  /\ bCur' = [bCur EXCEPT ![e] = NoOne]
  /\ pc' = [pc EXCEPT ![e] = "bloop"]
  /\ alertTo' = IF bKind[e] = "alert"
                THEN [alertTo EXCEPT ![e] = @ \cup {bCur[e]}]
                ELSE alertTo
  /\ UNCHANGED <<cpc, faults, storeVars, dispVars, hubVars, connVars, initKind, cfgSyms, ctxVars,
                 streamVars, rpc, providerCh, writeMu, evalVars, pollVars,
                 bKind, notifBy, sendVars, evalFired, alertDue, deliveredQ, evaluatedQ,
                 exitVia>>

\* The range is over: the deferred s.clientsMu.Unlock() runs and the caller
\* goes on (after a quote broadcast the alert check, after an alert
\* broadcast the notification).
BroadcastUnlock(e) ==
  /\ pc[e] = "bloop"
  /\ bTodo[e] = {}
  /\ clientsMu' = NoOne
  /\ pc' = [pc EXCEPT ![e] = IF bKind[e] = "quote" THEN "eval" ELSE "notify"]
  /\ bKind' = [bKind EXCEPT ![e] = "none"]
  /\ bOk' = [bOk EXCEPT ![e] = {}]
  /\ bFailed' = [bFailed EXCEPT ![e] = {}]
  /\ UNCHANGED <<cpc, faults, storeVars, dispVars, clients, connVars, initKind, cfgSyms, ctxVars,
                 streamVars, rpc, providerCh, writeMu, evalVars, pollVars,
                 bTodo, bCur, histVars>>

\* ------------------------------ StartPollingService / pollAndCheckAlerts
\* A loop that starts every tick in a goroutine of its own: the ticker case
\* is taken while a call is still running.
PollTickDetached ==
  /\ pc[Poller] # "stopped"
  /\ pollRuns < 2
  /\ pc' = [pc EXCEPT ![Poller] = "poll"]
  /\ pollRuns' = pollRuns + 1
  /\ UNCHANGED <<cpc, faults, storeVars, dispVars, hubVars, connVars, initKind, cfgSyms, ctxVars,
                 streamVars, rpc, providerCh, writeMu, evalVars, pidx,
                 pollCtxDone, bcastVars, histVars>>

\* select: case <-ticker.C: s.pollAndCheckAlerts(ctx), a call in the loop's
\* own goroutine: the select is reached again when the call has returned.
PollTick ==
  /\ pc[Poller] = "wait"
  /\ pc' = [pc EXCEPT ![Poller] = "poll"]
  /\ pollRuns' = pollRuns + 1
  /\ UNCHANGED <<cpc, faults, storeVars, dispVars, hubVars, connVars, initKind, cfgSyms, ctxVars,
                 streamVars, rpc, providerCh, writeMu, evalVars, pidx,
                 pollCtxDone, bcastVars, histVars>>

\* Variant of PollStop: the ctx.Done() case leaves the select, not the loop.
PollStopLeavesSelect ==
  /\ pc[Poller] = "wait"
  /\ pollCtxDone
  /\ UNCHANGED vars

\* select: case <-ctx.Done(): return
PollStop ==
  /\ pc[Poller] = "wait"
  /\ pollCtxDone
  /\ pc' = [pc EXCEPT ![Poller] = "stopped"]
  /\ UNCHANGED <<cpc, faults, storeVars, dispVars, hubVars, connVars, initKind, cfgSyms, ctxVars,
                 streamVars, rpc, providerCh, writeMu, evalVars, pollVars,
                 bcastVars, histVars>>

\* Guards of which the provider's ends the goroutine of the poller.
PollLoadFatal ==
  /\ pc[Poller] = "poll"
  /\ \E ok \in BOOLEAN :
       IF /\ ok
          /\ Len(GetOrCreateConfig.symbols) # 0
          /\ GetOrCreateConfig.interval > 0
          /\ NewProviderOk(GetOrCreateConfig.provider)
       THEN /\ cfgSyms' = [cfgSyms EXCEPT ![Poller] = GetOrCreateConfig.symbols]
            /\ pidx' = 1
            /\ pc' = [pc EXCEPT ![Poller] = "pfetch"]
            /\ UNCHANGED pollRuns
       ELSE /\ pc' = [pc EXCEPT ![Poller] =
                      IF NewProviderOk(GetOrCreateConfig.provider)
                      THEN "wait" ELSE "stopped"]
            /\ pollRuns' = pollRuns - 1
            /\ UNCHANGED <<cfgSyms, pidx>>
  /\ UNCHANGED <<cpc, faults, storeVars, dispVars, hubVars, connVars, initKind, ctxVars, streamVars,
                 rpc, providerCh, writeMu, evalVars, pollCtxDone, bcastVars,
                 histVars>>

\* The guards at the head of pollAndCheckAlerts: the config loads, symbols
\* are tracked, the interval is positive and the provider resolves.
PollLoad ==
  /\ pc[Poller] = "poll"
  /\ \E ok \in BOOLEAN :
       IF /\ ok
          /\ Len(GetOrCreateConfig.symbols) # 0
          /\ GetOrCreateConfig.interval > 0
          /\ NewProviderOk(GetOrCreateConfig.provider)
       THEN /\ cfgSyms' = [cfgSyms EXCEPT ![Poller] = GetOrCreateConfig.symbols]
            /\ pidx' = 1
            /\ pc' = [pc EXCEPT ![Poller] = "pfetch"]
            /\ UNCHANGED pollRuns
       ELSE /\ pc' = [pc EXCEPT ![Poller] = "wait"]
            /\ pollRuns' = pollRuns - 1
            /\ UNCHANGED <<cfgSyms, pidx>>
  /\ UNCHANGED <<cpc, faults, storeVars, dispVars, hubVars, connVars, initKind, ctxVars, streamVars,
                 rpc, providerCh, writeMu, evalVars, pollCtxDone, bcastVars,
                 histVars>>

\* provider.GetQuote(ctx, symbol) fails: continue.
PollFetchFail ==
  /\ pc[Poller] = "pfetch"
  /\ EvalReturn(Poller)
  /\ UNCHANGED <<cpc, faults, storeVars, dispVars, hubVars, connVars, initKind, ctxVars,
                 streamVars, rpc, providerCh, writeMu, pollCtxDone,
                 bcastVars, histVars>>

\* provider.GetQuote(ctx, symbol) returns a quote: BroadcastToClients next.
PollFetchOk ==
  /\ pc[Poller] = "pfetch"
  /\ fetched < MaxQuotes
  /\ \E p \in Prices :
       quote' = [quote EXCEPT ![Poller] =
                   [symbol |-> cfgSyms[Poller][pidx], price |-> p, n |-> 0]]
  /\ fetched' = fetched + 1
  /\ bKind' = [bKind EXCEPT ![Poller] = "quote"]
  /\ pc' = [pc EXCEPT ![Poller] = "bcast"]
  /\ UNCHANGED <<cpc, faults, storeVars, dispVars, hubVars, connVars, initKind, cfgSyms, ctxVars,
                 spc, sidx, spend, pushed, rpc, providerCh, writeMu, snap,
                 aidx, pollVars, bTodo, bCur, bOk, bFailed, histVars>>

\* The context given to StartPollingService is cancelled.
PollCtxCancel ==
  /\ ~pollCtxDone
  /\ Fault
  /\ pollCtxDone' = TRUE
  /\ UNCHANGED <<cpc, storeVars, dispVars, hubVars, connVars, pc, initKind, cfgSyms, ctxVars,
                 streamVars, rpc, providerCh, writeMu, evalVars, pidx, pollRuns,
                 bcastVars, histVars>>

\* ----------------- the monolithic handler (internal/api/handlers.go)
\* handleWebSocket up to its send loop, for a config with tracked symbols
\* and a provider that resolves: upgrade, registration, config, channel,
\* context, and the three goroutines (stream, reader, checkPriceAlerts).
\* The returns before that point are those of the handler modelled above.
LegacyStart(s) ==
  /\ pc[s] = "idle"
  /\ clientsMu = NoOne
  /\ GetOrCreateConfig.symbols # <<>>
  /\ NewProviderOk(GetOrCreateConfig.provider)
  /\ connState' = [connState EXCEPT ![s] = "open"]
  /\ clients' = clients \cup {s}
  /\ cfgSyms' = [cfgSyms EXCEPT ![s] = GetOrCreateConfig.symbols]
  /\ hasCtx' = [hasCtx EXCEPT ![s] = TRUE]
  /\ spc' = [spc EXCEPT ![s] = "tick"]
  /\ rpc' = [rpc EXCEPT ![s] = "reading"]
  /\ cpc' = [cpc EXCEPT ![s] = "select"]
  /\ pc' = [pc EXCEPT ![s] = "lselect"]
  /\ UNCHANGED <<faults, storeVars, dispVars, clientsMu, closeCount, errWrites, initKind,
                 cancelled,
                 parentDone, sidx, spend, fetched, pushed, providerCh, writeMu,
                 evalVars, pollVars, bcastVars, histVars>>

\* Send loop, case quote := <-quoteCh: conn.WriteJSON(msg); an error
\* returns from the handler.
LegacySend(s) ==
  /\ pc[s] = "lselect"
  /\ providerCh[s] # <<>>
  /\ providerCh' = [providerCh EXCEPT ![s] = Tail(@)]
  /\ IF WriteOk(s)
     THEN /\ deliveredQ' = [deliveredQ EXCEPT ![s] = @ \cup {Head(providerCh[s]).n}]
          /\ UNCHANGED <<pc, exitVia>>
     ELSE /\ pc' = [pc EXCEPT ![s] = "cancel"]
          /\ exitVia' = [exitVia EXCEPT ![s] = "writeerror"]
          /\ UNCHANGED deliveredQ
  /\ UNCHANGED <<cpc, faults, storeVars, dispVars, hubVars, connVars, initKind, cfgSyms,
                 ctxVars, streamVars, rpc, writeMu, evalVars, pollVars,
                 bcastVars, notifBy, evalFired, alertHist, sendVars, evaluatedQ>>

\* Send loop, case <-ctx.Done(): return.
LegacySendDone(s) ==
  /\ pc[s] = "lselect"
  /\ CtxDone(s)
  /\ pc' = [pc EXCEPT ![s] = "cancel"]
  /\ exitVia' = [exitVia EXCEPT ![s] = "ctxdone"]
  /\ UNCHANGED <<cpc, faults, storeVars, dispVars, hubVars, connVars, initKind, cfgSyms,
                 ctxVars, streamVars, rpc, providerCh, writeMu, evalVars,
                 pollVars, bcastVars, notifBy, evalFired, alertHist, sendVars, deliveredQ,
                 evaluatedQ>>

\* checkPriceAlerts, case quote := <-quoteCh: the same channel the send
\* loop receives from; alerts, err := s.db.GetActiveAlerts().
CheckReceive(s) ==
  /\ cpc[s] = "select"
  /\ providerCh[s] # <<>>
  /\ providerCh' = [providerCh EXCEPT ![s] = Tail(@)]
  /\ quote' = [quote EXCEPT ![s] = Head(providerCh[s])]
  /\ evaluatedQ' = [evaluatedQ EXCEPT ![s] = @ \cup {Head(providerCh[s]).n}]
  /\ \E ok \in StoreOutcomes :
       IF ok
       THEN /\ snap' = [snap EXCEPT ![s] = GetActiveAlerts]
            /\ aidx' = [aidx EXCEPT ![s] = 1]
            /\ cpc' = [cpc EXCEPT ![s] = "alertloop"]
       ELSE /\ quote' = [quote EXCEPT ![s] = NoQuote]
            /\ UNCHANGED <<snap, aidx, cpc>>
  /\ UNCHANGED <<faults, storeVars, dispVars, hubVars, connVars, pc, initKind, cfgSyms,
                 ctxVars, streamVars, rpc, writeMu, pollVars, bcastVars,
                 notifBy, evalFired, alertHist, sendVars, deliveredQ, exitVia>>

\* checkPriceAlerts, the range over the alerts: at the next crossed alert
\* on the quote's symbol s.db.TriggerAlert(alert.ID); after the last one
\* back to the select.
CheckAlertLoop(s) ==
  /\ cpc[s] = "alertloop"
  /\ LET h == NextHit(s, aidx[s]) IN
       IF h = 0
       THEN /\ quote' = [quote EXCEPT ![s] = NoQuote]
            /\ snap' = [snap EXCEPT ![s] = <<>>]
            /\ aidx' = [aidx EXCEPT ![s] = 0]
            /\ evalFired' = [evalFired EXCEPT ![s] = {}]
            /\ cpc' = [cpc EXCEPT ![s] = "select"]
            /\ UNCHANGED <<alerts, alertDue>>
       ELSE /\ \E ok \in StoreOutcomes :
                 alerts' = IF ok THEN TriggerAlert(snap[s][h]) ELSE alerts
            /\ alertDue' = [alertDue EXCEPT ![s] = clients]
            /\ aidx' = [aidx EXCEPT ![s] = h]
            /\ cpc' = [cpc EXCEPT ![s] = "notify"]
            /\ UNCHANGED <<quote, snap, evalFired>>
  /\ UNCHANGED <<faults, config, storeErr, cacheVars, dispVars, hubVars, connVars, pc, initKind,
                 cfgSyms, ctxVars, streamVars, rpc, providerCh, writeMu,
                 pollVars, bcastVars, notifBy, sendVars, alertTo, deliveredQ, evaluatedQ,
                 exitVia>>

\* checkPriceAlerts: go s.notifyService.SendToChannels(notification, ...)
CheckNotify(s) ==
  /\ cpc[s] = "notify"
  /\ notifBy' = [notifBy EXCEPT ![s][snap[s][aidx[s]]] = @ + 1]
  /\ sending' = [sending EXCEPT ![s] = @ + 1]
  /\ evalFired' = [evalFired EXCEPT ![s] = @ \cup {snap[s][aidx[s]]}]
  /\ alertDue' = [alertDue EXCEPT ![s] = {}]
  /\ aidx' = [aidx EXCEPT ![s] = @ + 1]
  /\ cpc' = [cpc EXCEPT ![s] = "alertloop"]
  /\ UNCHANGED <<faults, storeVars, dispVars, hubVars, connVars, pc, initKind, cfgSyms,
                 ctxVars, streamVars, rpc, providerCh, writeMu, quote, snap,
                 pollVars, bcastVars, alertTo, deliveredQ, evaluatedQ, exitVia, sendErrs>>

\* checkPriceAlerts, case <-ctx.Done(): return.
CheckDone(s) ==
  /\ cpc[s] = "select"
  /\ CtxDone(s)
  /\ cpc' = [cpc EXCEPT ![s] = "done"]
  /\ UNCHANGED <<faults, storeVars, dispVars, hubVars, connVars, pc, initKind, cfgSyms,
                 ctxVars, streamVars, rpc, providerCh, writeMu, evalVars,
                 pollVars, bcastVars, histVars>>

\* ------------------------------------------- the create-alert endpoints
\* Values of the form fields (and of the JSON members) of a request.
FormSymbols == {"", " aapl ", "MSFT"}
FormConditions == {"", "above", "below", "equal"}
FormPrices == {"", "abc", "-1", "0", "2"}
Methods == {"POST", "GET"}

\* strings.ToUpper(strings.TrimSpace(symbol))
NormalizeSymbol(str) ==
  CASE str = " aapl " -> "AAPL"
    [] str = "MSFT" -> "MSFT"
    [] OTHER -> ""

\* strconv.ParseFloat(priceStr, 64): the number, or an error.
ParseFloat(str) ==
  CASE str = "-1" -> [err |-> FALSE, val |-> -1]
    [] str = "0" -> [err |-> FALSE, val |-> 0]
    [] str = "2" -> [err |-> FALSE, val |-> 2]
    [] OTHER -> [err |-> TRUE, val |-> 0]

\* INSERT INTO price_alerts (symbol, condition, price) VALUES (?, ?, ?);
\* triggered takes its default, 0.
SavePriceAlert(symbol, condition, price) ==
  Append(alerts, [symbol |-> symbol, condition |-> condition,
                  price |-> price, triggered |-> FALSE])

\* handleAlerts, case POST (the JSON handler, which no route leads to):
\* the symbol and a positive price are required and the condition is
\* "above" or "below".
HandleAlerts(method, symbol, condition, priceStr) ==
  /\ Len(alerts) < Len(SortedSeq(AlertIds)) + MaxNewAlerts
  /\ \E ok \in StoreOutcomes :
       alerts' =
         IF /\ method = "POST"
            /\ ~ParseFloat(priceStr).err
            /\ NormalizeSymbol(symbol) # ""
            /\ ParseFloat(priceStr).val > 0
            /\ condition \in {"above", "below"}
            /\ ok
         THEN SavePriceAlert(NormalizeSymbol(symbol), condition,
                             ParseFloat(priceStr).val)
         ELSE alerts
  /\ UNCHANGED <<config, storeErr, cacheVars, dispVars, hubVars, connVars, pc, cpc, initKind, cfgSyms,
                 ctxVars, streamVars, faults, rpc, providerCh, writeMu,
                 evalVars, pollVars, bcastVars, histVars>>

\* handleAlertsHTMX, the handler of POST /api/alerts: the three form
\* fields are not empty and the price parses.
HandleAlertsHTMX(method, symbol, condition, priceStr) ==
  /\ Len(alerts) < Len(SortedSeq(AlertIds)) + MaxNewAlerts
  /\ \E ok \in StoreOutcomes :
       alerts' =
         IF /\ method = "POST"
            /\ NormalizeSymbol(symbol) # ""
            /\ condition # ""
            /\ priceStr # ""
            /\ ~ParseFloat(priceStr).err
            /\ ok
         THEN SavePriceAlert(NormalizeSymbol(symbol), condition,
                             ParseFloat(priceStr).val)
         ELSE alerts
  /\ UNCHANGED <<config, storeErr, cacheVars, dispVars, hubVars, connVars, pc, cpc, initKind, cfgSyms,
                 ctxVars, streamVars, faults, rpc, providerCh, writeMu,
                 evalVars, pollVars, bcastVars, histVars>>

\* ------------------------------------------------- the config cache
\* Everything but the store.
handlerVars == <<dispVars, hubVars, connVars, pc, cpc, initKind, cfgSyms, ctxVars,
                 streamVars, faults, rpc, providerCh, writeMu, evalVars,
                 pollVars, bcastVars, histVars>>

\* fetchConfigFromDB: the row of user_config with its defaults, and the
\* rows of notification_channels.
FetchConfigFromDB ==
  [cfg |-> GetOrCreateConfig, channels |-> channels, ver |-> dbVer]

\* GetOrCreateConfig, under configCacheMu.RLock(): a cache that is set and
\* younger than the TTL is copied and returned; otherwise the call goes on
\* to the database.
GetConfigStart(g) ==
  /\ gpc[g] = "idle"
  /\ gSince' = [gSince EXCEPT ![g] = retVer]
  /\ gChan' = [gChan EXCEPT ![g] = channels]
  /\ IF configCache # NoCache /\ cacheFresh
     THEN /\ gval' = [gval EXCEPT ![g] = configCache]
          /\ gpc' = [gpc EXCEPT ![g] = "done"]
     ELSE /\ gval' = [gval EXCEPT ![g] = NoCache]
          /\ gpc' = [gpc EXCEPT ![g] = "miss"]
  /\ UNCHANGED <<config, alerts, storeErr, channels, dbVer, retVer, configCache,
                 cacheFresh, wpc, handlerVars>>

\* config, err := db.fetchConfigFromDB(); an error is returned to the
\* caller.
GetConfigFetch(g) ==
  /\ gpc[g] = "miss"
  /\ \E ok \in BOOLEAN :
       IF ok
       THEN /\ gval' = [gval EXCEPT ![g] = FetchConfigFromDB]
            /\ gpc' = [gpc EXCEPT ![g] = "fetched"]
       ELSE /\ gpc' = [gpc EXCEPT ![g] = "idle"]
            /\ UNCHANGED gval
  /\ UNCHANGED <<config, alerts, storeErr, channels, dbVer, retVer, configCache,
                 cacheFresh, gSince, gChan, wpc, handlerVars>>

\* configCacheMu.Lock(); db.configCache = config; db.configCacheTime =
\* time.Now(); Unlock(); a copy is returned.
GetConfigStore(g) ==
  /\ gpc[g] = "fetched"
  /\ configCache' = gval[g]
  /\ cacheFresh' = TRUE
  /\ gpc' = [gpc EXCEPT ![g] = "done"]
  /\ UNCHANGED <<config, alerts, storeErr, channels, dbVer, retVer, gval,
                 gSince, gChan, wpc, handlerVars>>

\* The caller has used the value; it may call again.
GetConfigReturn(g) ==
  /\ gpc[g] = "done"
  /\ gpc' = [gpc EXCEPT ![g] = "idle"]
  /\ gval' = [gval EXCEPT ![g] = NoCache]
  /\ gSince' = [gSince EXCEPT ![g] = 0]
  /\ gChan' = [gChan EXCEPT ![g] = {}]
  /\ UNCHANGED <<config, alerts, storeErr, channels, dbVer, retVer, configCache,
                 cacheFresh, wpc, handlerVars>>

\* configCacheTTL (5 s) passes since configCacheTime.
CacheExpire ==
  /\ cacheFresh
  /\ cacheFresh' = FALSE
  /\ UNCHANGED <<config, alerts, storeErr, channels, dbVer, retVer, configCache,
                 gpc, gval, gSince, gChan, wpc, handlerVars>>

\* UpdateConfig: the UPDATE of user_config; on an error the function
\* returns it and leaves the cache alone.
UpdateConfigExec ==
  /\ wpc = "idle"
  /\ dbVer < MaxUpdates
  /\ \E new \in HubConfigs \ {config}, ok \in BOOLEAN :
       IF ok
       THEN /\ config' = new
            /\ dbVer' = dbVer + 1
            /\ wpc' = "invalidate"
       ELSE UNCHANGED <<config, dbVer, wpc>>
  /\ UNCHANGED <<alerts, storeErr, channels, retVer, configCache, cacheFresh,
                 gpc, gval, gSince, gChan, handlerVars>>

\* An UPDATE that clears the cache in the same critical section as the
\* write and leaves no stale value to be stored after it.
UpdateConfigInvalidateBarrier ==
  /\ wpc = "invalidate"
  /\ configCache' = NoCache
  /\ gpc' = [g \in Getters |-> IF gpc[g] = "fetched" THEN "miss" ELSE gpc[g]]
  /\ retVer' = dbVer
  /\ wpc' = "idle"
  /\ UNCHANGED <<config, alerts, storeErr, channels, dbVer, cacheFresh,
                 gval, gSince, gChan, handlerVars>>

\* InvalidateConfigCache: Lock(); db.configCache = nil; Unlock(); then
\* UpdateConfig returns nil.
UpdateConfigInvalidate ==
  /\ wpc = "invalidate"
  /\ configCache' = NoCache
  /\ retVer' = dbVer
  /\ wpc' = "idle"
  /\ UNCHANGED <<config, alerts, storeErr, channels, dbVer, cacheFresh, gpc,
                 gval, gSince, gChan, handlerVars>>

\* DeleteNotificationChannel: DELETE FROM notification_channels WHERE
\* id = ?; the result of Exec is returned.
DeleteNotificationChannel(id) ==
  /\ id \in channels
  /\ \E ok \in BOOLEAN :
       channels' = IF ok THEN channels \ {id} ELSE channels
  /\ UNCHANGED <<config, alerts, storeErr, dbVer, retVer, configCache,
                 cacheFresh, gpc, gval, gSince, gChan, wpc, handlerVars>>

\* ------------------------------------------------------ SendToChannels
\* An event match that takes an empty Events list for "every event".
EventMatchEmptyAll(ch, type) == ch.events = {} \/ type \in ch.events

\* for _, event := range ch.Events { if event == notification.Type ... }
EventMatch(ch, type) == type \in ch.events

\* One iteration of 'for _, ch := range channels': a disabled channel and
\* one whose events do not hold the type are skipped; a type without a
\* notifier appends an error; otherwise notifier.Send is called and its
\* error, if any, appended. The range goes on in every case.
SendToChannelsStep ==
  /\ dIdx <= Len(dChannels)
  /\ LET ch == dChannels[dIdx] IN
       IF ~ch.enabled \/ ~EventMatch(ch, dType)
       THEN UNCHANGED <<dSent, dErrs>>
       ELSE IF ch.type \notin RegisteredNotifiers
            THEN /\ dErrs' = dErrs + 1
                 /\ UNCHANGED dSent
            ELSE /\ dSent' = [dSent EXCEPT ![dIdx] = @ + 1]
                 /\ \E ok \in BOOLEAN :
                      dErrs' = IF ok THEN dErrs ELSE dErrs + 1
  /\ dIdx' = dIdx + 1
  /\ UNCHANGED <<dChannels, dType, storeVars, hubVars, connVars, pc, cpc,
                 initKind, cfgSyms, ctxVars, streamVars, faults, rpc,
                 providerCh, writeMu, evalVars, pollVars, bcastVars, histVars>>

\* ------------------------------------------------------ specification
SessionStep(s) ==
  \/ Register(s) \/ LoadConfig(s)
  \/ InitWriteBegin(s) \/ InitWriteEnd(s) \/ ReadLoopExit(s)
  \/ SelectDone(s) \/ SelectQuote(s) \/ QuoteWriteEnd(s)
  \/ AlertWriteEnd(s)
  \/ DeferCancel(s) \/ Deregister(s) \/ CloseConn(s)
  \/ ReaderExit(s)

StreamStep(s) ==
  \/ StreamTick(s)
  \/ StreamFetchFail(s) \/ StreamFetchOk(s)
  \/ StreamPush(s) \/ StreamCancelled(s)

EvaluatorStep(e) ==
  \/ EvalStart(e) \/ AlertLoop(e) \/ Notify(e)
  \/ BroadcastLock(e) \/ BroadcastWriteBegin(e) \/ BroadcastWriteEnd(e)
  \/ BroadcastUnlock(e)

PollerStep ==
  \/ PollTick \/ PollStop \/ PollLoad \/ PollFetchFail \/ PollFetchOk

\* The goroutines of the sessions in S.
SessionsNext(S) ==
  \E s \in S : SessionStep(s) \/ StreamStep(s) \/ EvaluatorStep(s)

\* What can go wrong around a session: the upgrade or the config load
\* fails, the peer goes away, the request context is cancelled.
SessionFault(s) ==
  \/ UpgradeFail(s) \/ LoadConfigFail(s) \/ PeerDisconnect(s) \/ ParentCancel(s)

\* The poller goroutine.
PollerNext == PollerStep \/ EvaluatorStep(Poller)

\* Two clients and the poller, with every failure.
Next ==
  \/ SessionsNext(Sessions)
  \/ PollerNext
  \/ \E s \in Sessions : SessionFault(s)
  \/ PollCtxCancel
Spec == Init /\ [][Next]_vars

\* One client with every failure of a session; no poller.
NextSolo == SessionsNext({"s1"}) \/ SessionFault("s1")
SpecSolo == Init /\ [][NextSolo]_vars

InitHub == Init /\ config \in HubConfigs

\* Two clients, of which the second one's peer may go away; no poller.
NextDuo == SessionsNext(Sessions) \/ PeerDisconnect("s2")
SpecDuo == InitHub /\ [][NextDuo]_vars

\* One client whose peer may go away, and the poller.
NextPoll == SessionsNext({"s1"}) \/ PollerNext \/ PeerDisconnect("s1") \/ PollCtxCancel
SpecPoll == InitHub /\ [][NextPoll]_vars

\* Two clients, of which the second one's peer may go away, and the poller.
NextHub ==
  SessionsNext(Sessions) \/ PollerNext \/ PeerDisconnect("s2") \/ PollCtxCancel
SpecHub == InitHub /\ [][NextHub]_vars

\* Broadcasts over two clients while the poller runs: the first client
\* only listens (its provider delivers nothing), the second one streams
\* and its peer may go away.
NextCast ==
  \/ SessionsNext({"s2"}) \/ SessionStep("s1")
  \/ PollTick \/ PollLoad \/ PollFetchFail \/ PollFetchOk
  \/ EvaluatorStep(Poller)
  \/ PeerDisconnect("s2")
SpecCast == InitHub /\ [][NextCast]_vars

\* One client as in SpecSolo, with the scheduling the stream goroutine can
\* count on: a GetQuote call returns and a send into a channel with room
\* completes (weak fairness of the stream's own steps), and a select whose
\* ctx.Done() case is ready again and again takes it at last, since select
\* picks among its ready cases at random (strong fairness of the return).
StreamProgress(s) == StreamFetchFail(s) \/ StreamFetchOk(s) \/ StreamPush(s)
SpecSoloFair ==
  /\ SpecSolo
  /\ WF_vars(StreamProgress("s1"))
  /\ SF_vars(StreamCancelled("s1"))

\* One client served by the monolithic handler, whose peer may go away.
LegacyStep(s) ==
  \/ LegacyStart(s) \/ LegacySend(s) \/ LegacySendDone(s)
  \/ CheckReceive(s) \/ CheckAlertLoop(s) \/ CheckNotify(s) \/ CheckDone(s)
  \/ DeferCancel(s) \/ Deregister(s) \/ CloseConn(s) \/ ReaderExit(s)
NextLegacy == LegacyStep("s1") \/ StreamStep("s1") \/ PeerDisconnect("s1")
SpecLegacy == InitHub /\ [][NextLegacy]_vars

\* One client and the poller, with a stored polling interval that is not
\* positive.
InitOff == Init /\ config.interval <= 0
SpecPollOff == InitOff /\ [][NextPoll]_vars

\* One client and the poller as in SpecPoll, with goroutines that keep
\* running: a step that the poller, the client's handler or the client's
\* stream can take is taken (the Go scheduler starves no runnable
\* goroutine).
SpecPollFair ==
  /\ SpecPoll
  /\ WF_vars(PollerNext)
  /\ WF_vars(SessionStep("s1") \/ EvaluatorStep("s1"))
  /\ WF_vars(StreamStep("s1"))

\* One client and the poller, with the notification goroutines they start.
NextSend ==
  \/ NextPoll
  \/ \E e \in {"s1", Poller} : DispatchEnd(e)
SpecSend == InitHub /\ [][NextSend]_vars

\* One client as in SpecSolo whose goroutines keep running: the handler
\* (with the evaluation it calls) and the stream each take a step they can
\* take, and a select whose ctx.Done() case stays ready takes it at last.
SpecSoloLive ==
  /\ SpecSolo
  /\ WF_vars(SessionStep("s1") \/ EvaluatorStep("s1"))
  /\ WF_vars(StreamStep("s1"))
  /\ SF_vars(SelectDone("s1"))
  /\ SF_vars(StreamCancelled("s1"))

\* SpecPollFair with a poller select that takes its ctx.Done() case at
\* last when that case is ready again and again (select picks among its
\* ready cases at random).
SpecPollStop == SpecPollFair /\ SF_vars(PollStop)

\* One client and the poller as in SpecPoll, over a config whose provider
\* resolves or does not.
ProviderConfigs ==
  HubConfigs \cup
    {[symbols |-> <<"AAPL">>, provider |-> "bloomberg", interval |-> 30]}
InitProvider == Init /\ config \in ProviderConfigs
SpecProvider == InitProvider /\ [][NextPoll]_vars

\* The routed create-alert endpoint alone, on a store that holds the two
\* alerts of the table.
NextAlerts ==
  \E method \in Methods, symbol \in FormSymbols, condition \in FormConditions,
     priceStr \in FormPrices :
    HandleAlertsHTMX(method, symbol, condition, priceStr)
SpecAlerts == InitHub /\ [][NextAlerts]_vars

\* One client, on a store whose statements on price_alerts may fail.
InitStoreErr == InitCommon /\ storeErr = TRUE
SpecStoreErr == InitStoreErr /\ [][NextSolo]_vars

\* The store alone: two callers of GetOrCreateConfig, the updates of the
\* configuration and the deletions of notification channels.
GetterStep(g) ==
  \/ GetConfigStart(g) \/ GetConfigFetch(g) \/ GetConfigStore(g)
  \/ GetConfigReturn(g)
NextCache ==
  \/ \E g \in Getters : GetterStep(g)
  \/ CacheExpire
  \/ UpdateConfigExec \/ UpdateConfigInvalidate
  \/ \E id \in ChannelIds : DeleteNotificationChannel(id)
SpecCache == InitHub /\ [][NextCache]_vars

\* One call of SendToChannels, for every list of channels up to
\* MaxChannels and every notification type.
InitDispatch ==
  /\ InitBase /\ storeErr = FALSE
  /\ config = [symbols |-> <<"AAPL">>, provider |-> "yahoo", interval |-> 30]
  /\ dChannels \in ChannelLists
  /\ dType \in NotificationTypes
  /\ dIdx = 1
  /\ dSent = [i \in 1..Len(dChannels) |-> 0]
  /\ dErrs = 0
SpecDispatch == InitDispatch /\ [][SendToChannelsStep]_vars

\* ================================================================ claims
\* Notifications dispatched for alert a by all evaluators together.
NotifCount(a) == notifBy["s1"][a] + notifBy["s2"][a] + notifBy[Poller][a]

\* The evaluation that evaluator e runs has gone through the whole list.
EvalComplete(e) == pc[e] = "alertloop" /\ NextHit(e, aidx[e]) = 0

\* C1: over any interleaving of the session evaluators and the poller, the
\* whole system dispatches at most one notification for an alert.
C1_AtMostOneNotification == \A a \in AlertIds : NotifCount(a) <= 1

\* C2: one evaluator that evaluates crossing quotes in sequence dispatches
\* exactly one notification for the alert, in the first evaluation; the
\* alert is then triggered in the store and no later evaluation of that
\* evaluator sees or fires it again.
C2_OnceThenNever ==
  \A a \in AlertIds :
    /\ notifBy["s1"][a] <= 1
    /\ notifBy["s1"][a] = 1 => alerts[a].triggered
    /\ (EvalComplete("s1") /\ quote["s1"].symbol = alerts[a].symbol
          /\ (IF alerts[a].condition = "above"
              THEN quote["s1"].price >= alerts[a].price
              ELSE quote["s1"].price <= alerts[a].price))
         => /\ notifBy["s1"][a] = 1
            /\ a \in evalFired["s1"] <=> \E j \in 1..Len(snap["s1"]) : snap["s1"][j] = a

\* The second of two evaluations of AAPL at 3 by one session is complete:
\* alert 1 (above 2) was fired by the first and not by the second.
C2_Witness ==
  /\ EvalComplete("s1")
  /\ evaluatedQ["s1"] = {1, 2}
  /\ quote["s1"].symbol = "AAPL" /\ quote["s1"].price = 3
  /\ notifBy["s1"][1] = 1 /\ notifBy["s1"][2] = 0
  /\ evalFired["s1"] = {}
  /\ snap["s1"] = <<2>>

\* C3: at most one write is in progress on a connection at any time.
C3_WritesSerialized == \A c \in Sessions : WritesInProgress(c) <= 1

\* Evaluator e leaves the loop head towards the trigger of an alert.
Triggers(e) == pc[e] = "alertloop" /\ pc'[e] # "alertloop"

\* A complete evaluation has fired every listed alert of condition cond on
\* the quote's symbol whose threshold satisfies hit, and no other one.
CompleteFor(cond, hit(_, _)) ==
  \A e \in Evaluators :
    EvalComplete(e) =>
      \A j \in 1..Len(snap[e]) :
        LET a == snap[e][j] IN
          (alerts[a].condition = cond /\ alerts[a].symbol = quote[e].symbol)
            => IF hit(quote[e].price, alerts[a].price)
               THEN alerts[a].triggered /\ a \in evalFired[e]
               ELSE a \notin evalFired[e]

\* A step marks an alert of condition cond, or dispatches a notification
\* for it, only for an evaluator whose quote is on the alert's symbol and
\* satisfies hit; the notification is the first of that evaluation and
\* follows the mark; a mark is never taken back.
StepFor(cond, hit(_, _)) ==
  \A a \in AlertIds :
    alerts[a].condition = cond =>
      /\ alerts[a].triggered => alerts'[a].triggered
      /\ (~alerts[a].triggered /\ alerts'[a].triggered)
           => \E e \in Evaluators :
                /\ Triggers(e)
                /\ quote[e].symbol = alerts[a].symbol
                /\ hit(quote[e].price, alerts[a].price)
      /\ \A e \in Evaluators :
           notifBy'[e][a] # notifBy[e][a]
             => /\ notifBy'[e][a] = notifBy[e][a] + 1
                /\ a \notin evalFired[e]
                /\ alerts[a].triggered
                /\ quote[e].symbol = alerts[a].symbol
                /\ hit(quote[e].price, alerts[a].price)

AtOrAbove(p, t) == p >= t
AtOrBelow(p, t) == p <= t

\* C4: an "above" alert with threshold T on the quote's symbol is marked
\* triggered and fired, once, exactly when the quote's price is >= T; with
\* a price < T nothing is marked and nothing is dispatched.
C4_AboveInclusive ==
  [](CompleteFor("above", AtOrAbove)) /\ [][StepFor("above", AtOrAbove)]_vars

\* An evaluation of a quote at exactly the threshold of the "above" alert
\* is complete and has fired it.
C4_Witness ==
  \E e \in Evaluators :
    /\ EvalComplete(e)
    /\ alerts[1].condition = "above" /\ quote[e].price = alerts[1].price
    /\ 1 \in evalFired[e] /\ notifBy[e][1] = 1

\* C5: a "below" alert with threshold T on the quote's symbol is marked
\* triggered and fired, once, exactly when the quote's price is <= T; with
\* a price > T nothing is marked and nothing is dispatched.
C5_BelowInclusive ==
  [](CompleteFor("below", AtOrBelow)) /\ [][StepFor("below", AtOrBelow)]_vars

\* An evaluation of a quote at exactly the threshold of the "below" alert
\* is complete and has fired it.
C5_Witness ==
  \E e \in Evaluators :
    /\ EvalComplete(e)
    /\ alerts[2].condition = "below" /\ quote[e].price = alerts[2].price
    /\ 2 \in evalFired[e] /\ notifBy[e][2] = 1

\* C6: a broadcast reaches every registered connection whatever the
\* outcome of the single writes: while it runs, the connections written,
\* failed and still to do are together exactly the registered ones, so at
\* the end of the range every one of them was written to or failed, and a
\* connection whose write failed is still registered.
C6_BroadcastBestEffort ==
  \A e \in Evaluators :
    pc[e] \in {"bloop", "bwriting"} =>
      /\ clientsMu = e
      /\ bOk[e] \cup bFailed[e] \cup bTodo[e] = clients
      /\ bOk[e] \cap bFailed[e] = {}
      /\ bTodo[e] \cap (bOk[e] \cup bFailed[e]) = {}
      /\ pc[e] = "bwriting" => bCur[e] \in bTodo[e]

\* The poller's quote broadcast to two clients is over: one write failed,
\* the other client was written to, and both are still registered.
C6_Witness ==
  /\ pc[Poller] = "bloop" /\ bTodo[Poller] = {} /\ bKind[Poller] = "quote"
  /\ bFailed[Poller] = {"s2"} /\ bOk[Poller] = {"s1"}
  /\ clients = {"s1", "s2"}

\* C7: no broadcast is writing, or is still going to write, to a
\* connection that is not registered: once a session's removal from the
\* client set is done, the running broadcast (which held the lock the
\* removal waited for) is over and every later one ranges over a set
\* without it.
C7_NoWriteAfterDeregister ==
  \A c \in Sessions :
    c \notin clients =>
      \A e \in Evaluators :
        /\ ~(pc[e] = "bwriting" /\ bCur[e] = c)
        /\ pc[e] \in {"bloop", "bwriting"} => c \notin bTodo[e]

\* The second client was registered, has been removed and closed, and a
\* broadcast of the poller is writing to the first one.
C7_Witness ==
  /\ pc["s2"] = "returned" /\ closeCount["s2"] = 1 /\ "s2" \notin clients
  /\ pc[Poller] = "bwriting" /\ bCur[Poller] = "s1"

\* The ways a registered handler returns.
ExitPaths == {"cfgerror", "nosymbols", "providererror", "writeerror", "ctxdone"}

\* C8: a handler that registered its connection and has returned, by any
\* of its exit paths, has removed the connection from the client set and
\* closed it exactly once; a registered connection belongs to a handler
\* that is still running, and no connection is closed twice.
C8_CleanupOnEveryExit ==
  \A s \in Sessions :
    /\ closeCount[s] <= 1
    /\ s \in clients => pc[s] \notin {"idle", "returned"}
    /\ pc[s] = "returned" =>
         \/ exitVia[s] = "upgrade" /\ closeCount[s] = 0 /\ s \notin clients
         \/ /\ exitVia[s] \in ExitPaths
            /\ s \notin clients
            /\ closeCount[s] = 1
            /\ connState[s] = "closed"

\* The handler has returned after a quote write failed.
C8_Witness ==
  /\ pc["s1"] = "returned" /\ exitVia["s1"] = "writeerror"
  /\ closeCount["s1"] = 1 /\ "s1" \notin clients

\* C9: once a session's context is cancelled, its StreamQuotes goroutine
\* returns, wherever it is: at the ticker, in the middle of a batch, or
\* blocked on a send into a full channel.
C9_StreamReturns == \A s \in Sessions : CtxDone(s) ~> (spc[s] = "done")

\* The context is cancelled and the handler has returned while the stream
\* is blocked on its send: the channel is full and nobody receives.
C9_Witness ==
  /\ CtxDone("s1") /\ pc["s1"] = "returned"
  /\ spc["s1"] = "push" /\ Len(providerCh["s1"]) = SinkCap

\* The quote a session has written and is about to evaluate.
AboutToEvaluate(s) == IF pc[s] = "eval" THEN {quote[s].n} ELSE {}

\* C10: a quote taken from the channel is evaluated only after it was
\* written to the client, and a quote written to the client is evaluated
\* as the handler's very next step.
C10_WrittenThenEvaluated ==
  \A s \in Sessions :
    /\ evaluatedQ[s] \subseteq deliveredQ[s]
    /\ deliveredQ[s] \ evaluatedQ[s] \subseteq AboutToEvaluate(s)

\* The poller is at its ticker, at the guards of a tick, or stopped: it is
\* not fetching, broadcasting or evaluating.
PollerIdle == pc[Poller] \in {"wait", "poll", "stopped"}

\* C11: with a stored polling interval of 0 the poller never gets past
\* the guards of its tick, so it fetches no quote.
C11_NoFetchWhenIntervalZero == config.interval = 0 => PollerIdle

\* The poller holds a fetched quote that it is about to broadcast, and no
\* connection is registered.
PollerQuoteNoSubscriber ==
  pc[Poller] = "bcast" /\ bKind[Poller] = "quote" /\ clients = {}

\* The poller's complete evaluation has marked and fired, once, every
\* listed alert on the quote's symbol that the quote crosses.
PollerFiredAll ==
  EvalComplete(Poller) =>
    \A j \in 1..Len(snap[Poller]) :
      LET a == alerts[snap[Poller][j]] IN
        (/\ a.symbol = quote[Poller].symbol
         /\ \/ a.condition = "above" /\ quote[Poller].price >= a.price
            \/ a.condition = "below" /\ quote[Poller].price <= a.price)
          => /\ a.triggered
             /\ snap[Poller][j] \in evalFired[Poller]
             /\ notifBy[Poller][snap[Poller][j]] = 1

\* C12: a quote the poller fetched while no connection is registered is
\* evaluated all the same: the tick goes on to a complete evaluation,
\* which marks and fires every active alert the quote crosses.
C12_FiresWithoutSubscribers ==
  /\ []PollerFiredAll
  /\ PollerQuoteNoSubscriber ~> EvalComplete(Poller)

\* No client has ever connected, and the poller's evaluation is complete
\* with both alerts fired.
C12_Witness ==
  /\ \A s \in Sessions : pc[s] = "idle"
  /\ clients = {}
  /\ EvalComplete(Poller)
  /\ evalFired[Poller] = {1, 2}
  /\ alerts[1].triggered /\ alerts[2].triggered

\* Where the handler of a session without tracked symbols can be.
NoSymbolsPcs ==
  {"idle", "loadcfg", "initwrite", "initwriting", "readloop", "dereg",
   "close", "returned"}

\* A session without tracked symbols has no stream, no context, no read
\* goroutine and no channel content, has written no quote and evaluated
\* nothing; while it waits in its read loop it is registered, and once it
\* has returned it is deregistered and closed.
NoSymbolsQuiet ==
  config.symbols = <<>> =>
    \A s \in Sessions :
      /\ pc[s] \in NoSymbolsPcs
      /\ spc[s] = "none" /\ rpc[s] = "none" /\ ~hasCtx[s]
      /\ providerCh[s] = <<>> /\ ~writeMu[s]
      /\ deliveredQ[s] = {} /\ evaluatedQ[s] = {}
      /\ \A a \in AlertIds : notifBy[s][a] = 0
      /\ pc[s] = "readloop" => s \in clients /\ closeCount[s] = 0
      /\ (pc[s] = "returned" /\ exitVia[s] = "nosymbols")
           => s \notin clients /\ closeCount[s] = 1

\* The read loop is left only on a read error, and towards the cleanup.
NoSymbolsLeave ==
  \A s \in Sessions :
    (pc[s] = "readloop" /\ pc'[s] # "readloop")
      => connState[s] # "open" /\ pc'[s] = "dereg"

\* C13: a session that finds no tracked symbol streams nothing, writes no
\* quote, evaluates no alert, blocks in its read loop and, on a read
\* error, deregisters and closes.
C13_NoSymbolsOnlyReads == []NoSymbolsQuiet /\ [][NoSymbolsLeave]_vars

\* The session without tracked symbols has returned after its peer went
\* away.
C13_Witness ==
  /\ config.symbols = <<>>
  /\ pc["s1"] = "returned" /\ exitVia["s1"] = "nosymbols"
  /\ connState["s1"] = "closed"

\* The stream of session s leaves the symbol at index sidx[s] without a quote.
FetchFailedStep(s) ==
  /\ spc[s] = "fetch"
  /\ spc'[s] # "push"
  /\ <<spc[s], sidx[s]>>' # <<spc[s], sidx[s]>>

\* The stream of session s hands a quote to the channel.
PushStep(s) == pushed'[s] = pushed[s] + 1

BatchStep(s) ==
  /\ FetchFailedStep(s) =>
        /\ providerCh'[s] = providerCh[s]
        /\ pushed'[s] = pushed[s]
        /\ IF sidx[s] < Len(cfgSyms[s])
             THEN spc'[s] = "fetch" /\ sidx'[s] = sidx[s] + 1
             ELSE spc'[s] = "tick"
  /\ PushStep(s) =>
        /\ providerCh'[s] = Append(providerCh[s], spend[s])
        /\ spend[s].symbol = cfgSyms[s][sidx[s]]
        /\ IF sidx[s] < Len(cfgSyms[s])
             THEN spc'[s] = "fetch" /\ sidx'[s] = sidx[s] + 1
             ELSE spc'[s] = "tick"
  /\ (spc[s] = "tick" /\ spc'[s] = "fetch") => sidx'[s] = 1

\* C14: within one tick of StreamQuotes a failed fetch pushes nothing for its
\* symbol and the batch goes on with the next symbol of the list; a successful
\* fetch is pushed for the symbol at the current index, the index only grows
\* inside a tick, and the next tick starts again at the first symbol.
C14_FailedSymbolSkipped == [][\A s \in Sessions : BatchStep(s)]_vars

\* The first quote of a two-symbol session is for the second symbol: the
\* first symbol failed in the tick that pushed it.
C14_Witness ==
  /\ Len(cfgSyms["s1"]) = 2
  /\ pushed["s1"] = 1
  /\ Len(providerCh["s1"]) = 1
  /\ providerCh["s1"][1].symbol = cfgSyms["s1"][2]
  /\ cfgSyms["s1"][1] # cfgSyms["s1"][2]

\* The evaluator has marked an alert triggered and is about to hand its
\* notification to the dispatcher.
AlertProcessed(e) ==
  \/ pc[e] = "notify"
  \/ e \in Sessions /\ cpc[e] = "notify"

\* C15: when an alert has triggered, in a session or in the poller, its
\* alert message has been written to every connection that was registered
\* when it triggered and still is, by the time the notification is handed
\* to the dispatcher.
C15_AlertToAllSubscribers ==
  \A e \in Evaluators :
    AlertProcessed(e) => (alertDue[e] \cap clients) \subseteq alertTo[e]

\* The alerts of evaluator e's listing that its quote crosses.
CrossedInPass(e) ==
  {a \in AlertIds :
     /\ \E j \in 1..Len(snap[e]) : snap[e][j] = a
     /\ alerts[a].symbol = quote[e].symbol
     /\ Crossed(alerts[a], quote[e])}

\* At the end of a session's pass the alerts fired in it are the crossed
\* ones, all of them marked.
PassFiresEachCrossed ==
  \A s \in Sessions :
    EvalComplete(s) =>
      /\ evalFired[s] = CrossedInPass(s)
      /\ \A a \in CrossedInPass(s) : alerts[a].triggered

\* A dispatch of a session is for one alert, not yet fired in the pass.
OneNotificationPerAlert ==
  \A s \in Sessions :
    notifBy'[s] # notifBy[s] =>
      \E a \in AlertIds \ evalFired[s] :
        /\ notifBy'[s] = [notifBy[s] EXCEPT ![a] = @ + 1]
        /\ evalFired'[s] = evalFired[s] \cup {a}

\* C16: one quote is compared with every listed alert on its symbol: the k
\* alerts it crosses are all marked triggered in that pass, and the pass
\* dispatches k notifications, one for each of them.
C16_EachCrossedAlertFires ==
  []PassFiresEachCrossed /\ [][OneNotificationPerAlert]_vars

\* A session's pass over a quote at 2, the threshold of both the "above"
\* and the "below" alert, is complete: both are marked and both fired.
C16_Witness ==
  /\ EvalComplete("s1")
  /\ quote["s1"].price = 2
  /\ alerts[1].price = 2 /\ alerts[2].price = 2
  /\ alerts[1].condition = "above" /\ alerts[2].condition = "below"
  /\ evalFired["s1"] = {1, 2}
  /\ Cardinality(CrossedInPass("s1")) = 2
  /\ notifBy["s1"][1] = 1 /\ notifBy["s1"][2] = 1
  /\ alerts[1].triggered /\ alerts[2].triggered

\* C17: at most one call of pollAndCheckAlerts is in progress: the count
\* of calls that have not returned never exceeds one, and it is one exactly
\* while the poller's goroutine is inside the call.
C17_NoOverlappingTicks ==
  /\ pollRuns \in {0, 1}
  /\ pollRuns = 1 <=> pc[Poller] \notin {"wait", "stopped"}

\* The poller fired alert 1 in an earlier tick of its one-symbol list and
\* is fetching again, in a later tick, the only call in progress.
C17_Witness ==
  /\ pc[Poller] = "pfetch"
  /\ Len(cfgSyms[Poller]) = 1
  /\ notifBy[Poller][1] = 1
  /\ pollRuns = 1

\* The session's handler receives a quote from its channel.
TakesQuote(s) == Len(providerCh'[s]) < Len(providerCh[s])

\* Nothing of an earlier quote is left to do in session s: no quote is
\* held, no write of its own and no broadcast is under way, no listing is
\* being ranged over, and every quote written was evaluated.
QuoteDone(s) ==
  /\ pc[s] = "select"
  /\ quote[s] = NoQuote
  /\ ~writeMu[s]
  /\ bKind[s] = "none" /\ bTodo[s] = {} /\ clientsMu # s
  /\ snap[s] = <<>>
  /\ evaluatedQ[s] = deliveredQ[s]

\* A step of session s that receives takes the oldest quote of the
\* channel, the one pushed right after the last one written, with the
\* earlier quote done; a step that records a write records the quote held.
InPushOrder(s) ==
  /\ TakesQuote(s) =>
        /\ QuoteDone(s)
        /\ quote'[s] = Head(providerCh[s])
        /\ providerCh'[s] = Tail(providerCh[s])
        /\ deliveredQ[s] = 1..(quote'[s].n - 1)
  /\ deliveredQ'[s] # deliveredQ[s] =>
        /\ deliveredQ'[s] = deliveredQ[s] \cup {quote[s].n}
        /\ deliveredQ'[s] = 1..quote[s].n

EvalPath(e) ==
  <<pc[e], quote[e], snap[e], aidx[e], evalFired[e], notifBy[e], alerts,
    cancelled, exitVia, clients, connState>>

\* A step in which a dispatch started by e returns errors changes nothing
\* of e's evaluation path, nor the alerts; a step in which e starts a
\* dispatch leaves it running and goes on with the listing; no step takes
\* the mark of an alert back.
DispatchApart(e) ==
  /\ sendErrs'[e] # sendErrs[e] =>
        /\ sendErrs'[e] = sendErrs[e] + 1
        /\ sending'[e] = sending[e] - 1
        /\ EvalPath(e)' = EvalPath(e)
  /\ notifBy'[e] # notifBy[e] =>
        /\ sending'[e] = sending[e] + 1
        /\ sendErrs'[e] = sendErrs[e]
        /\ pc'[e] = "alertloop" /\ aidx'[e] = aidx[e] + 1
  /\ \A a \in AlertIds : alerts[a].triggered => alerts'[a].triggered

\* C19: the errors SendToChannels returns reach nobody: the evaluator has
\* gone on with its listing when it started the dispatch, the failure
\* changes nothing of the evaluator's state, and the alert stays marked.
C19_DispatchFailureIgnored ==
  [][\A e \in Evaluators : DispatchApart(e)]_vars

\* The dispatch for alert 1 has failed, the alert is still marked, and the
\* session that started it is already writing its next quote.
C19_Witness ==
  /\ sendErrs["s1"] = 1
  /\ notifBy["s1"][1] = 1 /\ alerts[1].triggered
  /\ pc["s1"] = "qwriting" /\ quote["s1"].n = 2

\* Evaluator e is inside a network call: a write to a connection, or the
\* poller's quote fetch.
InNetworkCall(e) ==
  pc[e] \in {"initwriting", "qwriting", "awriting", "bwriting", "pfetch"}

\* C20: whoever holds the lock of the client set is not inside a network
\* call.
C20_LockNotAcrossNetwork ==
  \A e \in Evaluators : clientsMu = e => ~InNetworkCall(e)

\* Session s is closed: its handler has returned, its connection is out of
\* the client set and closed.
Closed(s) == pc[s] = "returned" /\ s \notin clients /\ connState[s] = "closed"

\* C21: once the request context of a session is cancelled, the session
\* gets closed, wherever it was, the read loop of a session without tracked
\* symbols included.
C21_CancelLeadsToClosed ==
  \A s \in Sessions : parentDone[s] ~> Closed(s)

\* C22: the cancellation of the poller's context leads to the return of
\* the poller's goroutine, and a poller that has returned stays so: it
\* starts no call of pollAndCheckAlerts any more.
C22_PollerStops ==
  /\ pollCtxDone ~> pc[Poller] = "stopped"
  /\ [][pc[Poller] = "stopped" =>
         pc'[Poller] = "stopped" /\ pollRuns' = pollRuns]_vars

\* The poller fired an alert in a tick, and has returned after the
\* cancellation of its context.
C22_Witness ==
  /\ pollCtxDone /\ pc[Poller] = "stopped" /\ pollRuns = 0
  /\ \E a \in AlertIds : notifBy[Poller][a] = 1

\* The config names a provider that is none of the known ones.
Unresolvable == config.provider \notin KnownProviders

\* With an unresolvable provider a session has no context, no stream, no
\* read goroutine and no channel content, has written no quote, and has
\* written at most one error message: exactly one when it left by the
\* provider error, after which it is on its way out, and once returned it
\* is out of the client set with its connection closed.
ProviderErrorEndsSession ==
  Unresolvable =>
    \A s \in Sessions :
      /\ ~hasCtx[s] /\ spc[s] = "none" /\ rpc[s] = "none"
      /\ providerCh[s] = <<>> /\ pushed[s] = 0 /\ deliveredQ[s] = {}
      /\ errWrites[s] <= 1
      /\ exitVia[s] = "providererror" =>
            /\ errWrites[s] = 1
            /\ pc[s] \in {"dereg", "close", "returned"}
      /\ pc[s] = "returned" => s \notin clients /\ connState[s] = "closed"

\* The step by which a session leaves on the provider error changes
\* nothing of any other evaluator, and the poller stops on the
\* cancellation of its own context only.
ProviderErrorIsLocal ==
  /\ \A s \in Sessions :
       (exitVia'[s] = "providererror" /\ exitVia[s] # "providererror") =>
         \A e \in Evaluators \ {s} :
           /\ pc'[e] = pc[e]
           /\ e \in Sessions =>
                 /\ connState'[e] = connState[e]
                 /\ cancelled'[e] = cancelled[e]
                 /\ parentDone'[e] = parentDone[e]
                 /\ (e \in clients') = (e \in clients)
  /\ pc'[Poller] = "stopped" => pollCtxDone

ProducerBlocked(s) == spc[s] = "push" /\ Len(providerCh[s]) = SinkCap

\* The channel of a session never exceeds its capacity and holds the
\* quotes pushed last, in push order and without a gap.
SinkBounded ==
  \A s \in Sessions :
    /\ Len(providerCh[s]) <= SinkCap
    /\ \A i \in 1..Len(providerCh[s]) :
         providerCh[s][i].n = pushed[s] - Len(providerCh[s]) + i

\* The channel changes by the producer's append of its pending quote to a
\* channel with room, or by the consumer's receive of the head; a producer
\* blocked on a full channel moves by the cancellation only, and does not
\* fetch meanwhile.
SinkBlocks ==
  \A s \in Sessions :
    /\ providerCh'[s] # providerCh[s] =>
         \/ /\ Len(providerCh[s]) < SinkCap
            /\ spc[s] = "push"
            /\ providerCh'[s] = Append(providerCh[s], spend[s])
         \/ /\ providerCh'[s] = Tail(providerCh[s])
            /\ quote'[s] = Head(providerCh[s])
    /\ ProducerBlocked(s) =>
         /\ pushed'[s] = pushed[s]
         /\ \/ spc'[s] = "push" /\ spend'[s] = spend[s]
            \/ CtxDone(s) /\ spc'[s] = "done"

\* C24: the channel of a session holds at most its capacity; a producer
\* that finds it full waits at its send, drops and overwrites nothing and
\* fetches nothing, until the consumer receives or the context is done.
C24_SinkBoundedBlocking == []SinkBounded /\ [][SinkBlocks]_vars

\* The producer waits at its send with a quote in hand: the channel is
\* full and the context is not done.
C24_Witness ==
  /\ ProducerBlocked("s1") /\ ~CtxDone("s1")
  /\ spend["s1"] # NoQuote
  /\ pushed["s1"] = SinkCap

\* The alert message evaluator e is writing to a connection: the direct
\* write of a session, or the message of the broadcast that follows.
WritingAlert(e) ==
  \/ pc[e] = "awriting"
  \/ pc[e] = "bwriting" /\ bKind[e] = "alert"

AlertMsgInFlight(e) ==
  LET a == alerts[snap[e][aidx[e]]]
      m == DirectAlertMsg(a, quote[e])
  IN IF pc[e] = "awriting" THEN m
     ELSE BroadcastAlertMsg(a.symbol, m.message)

AlertMsgKeys == {"title", "message", "symbol", "price"}

\* C25: every alert message being written to a connection, directly by the
\* session that triggered it or through the broadcast of a session or of
\* the poller, has type "alert" and the keys title, message, symbol and
\* price.
C25_AlertMsgComplete ==
  \A e \in Evaluators :
    WritingAlert(e) =>
      /\ AlertMsgInFlight(e).type = "alert"
      /\ AlertMsgKeys \subseteq DOMAIN AlertMsgInFlight(e)

\* The direct writes alone are complete.
C25_DirectComplete ==
  \A e \in Evaluators :
    pc[e] = "awriting" =>
      /\ AlertMsgInFlight(e).type = "alert"
      /\ AlertMsgKeys \subseteq DOMAIN AlertMsgInFlight(e)

C27_TriggeredMonotonic ==
  [][/\ DOMAIN alerts' = DOMAIN alerts
     /\ \A i \in DOMAIN alerts :
          /\ alerts[i].triggered => alerts'[i].triggered
          /\ [alerts'[i] EXCEPT !.triggered = FALSE]
               = [alerts[i] EXCEPT !.triggered = FALSE]]_vars

\* An alert is triggered and both the session and the poller have fired it:
\* the second TriggerAlert ran on a row that was triggered or about to be.
C27_Witness ==
  \E i \in AlertIds :
    /\ alerts[i].triggered
    /\ notifBy["s1"][i] >= 1
    /\ notifBy[Poller][i] >= 1

\* Session s is inside checkAndTriggerAlerts, past its read of the store.
InEvaluation(s) == aidx[s] >= 1

\* What a session that connects to an untouched store would load: every
\* alert of the table, none of them triggered yet.
LoadedInConnecting == SortedSeq(AlertIds)

\* C28 as stated: the alert set a session evaluates its quotes against is
\* the one of its connection, the same for every quote.
C28_AlertSetFixed ==
  \A s \in Sessions : InEvaluation(s) => snap[s] = LoadedInConnecting

StoreReadPerQuote(s) ==
  /\ ~InEvaluation(s) /\ InEvaluation(s)' =>
       snap'[s] = SortedSeq({i \in AlertIds : ~alerts[i].triggered})
  /\ InEvaluation(s) /\ InEvaluation(s)' => snap'[s] = snap[s]

\* C28, amended: a session holds no alert set between two quotes; every
\* evaluation of a quote starts with a read of the store and runs against
\* the alerts that are untriggered at that read.
C28_ReadPerQuote ==
  /\ [](\A s \in Sessions : ~InEvaluation(s) => snap[s] = <<>>)
  /\ [][\A s \in Sessions : StoreReadPerQuote(s)]_vars

\* The session evaluates its second quote after its first one triggered
\* alert 1: the set it read holds alert 2 only.
C28_Witness ==
  /\ InEvaluation("s1")
  /\ evaluatedQ["s1"] = {1, 2}
  /\ alerts[1].triggered /\ ~alerts[2].triggered
  /\ snap["s1"] = <<2>>

\* C29 as stated: the producer is never stalled by its consumer; a stream
\* with a quote in hand can always complete its send.
C29_ProducerNeverStalls ==
  \A s \in Sessions : spc[s] = "push" => ENABLED StreamPush(s)

\* The producer leaves its send by appending its quote to a channel with
\* room, or by the cancellation.
SendCompletes(s) ==
  spc[s] = "push" /\ spc'[s] # "push" =>
    \/ /\ Len(providerCh[s]) < SinkCap
       /\ providerCh'[s] = Append(providerCh[s], spend[s])
    \/ CtxDone(s) /\ spc'[s] = "done" /\ providerCh'[s] = providerCh[s]

\* A quote leaves the channel by the receive of the session's select, as
\* the head, and is the quote the session handles next.
LeavesByReceive(s) ==
  Len(providerCh'[s]) < Len(providerCh[s]) \/ pushed'[s] # pushed[s]
    => \/ /\ Len(providerCh[s]) > 0
          /\ providerCh'[s] = Tail(providerCh[s])
          /\ pc[s] = "select" /\ quote'[s] = Head(providerCh[s])
       \/ /\ providerCh'[s] = Append(providerCh[s], spend[s])
          /\ pushed'[s] = pushed[s] + 1

\* C29, amended: the buffering is bounded and blocking. On a full channel
\* the send of the producer is not enabled; the producer completes a send
\* by appending to a channel with room only, and no buffered quote is
\* discarded: a slow consumer stalls the producer.
C29_FullBufferStalls ==
  /\ [](\A s \in Sessions :
         Len(providerCh[s]) = SinkCap => ~ENABLED StreamPush(s))
  /\ [][\A s \in Sessions : SendCompletes(s) /\ LeavesByReceive(s)]_vars

\* The channel holds quote 1, which the session has not received yet, and
\* the producer waits at its send with quote 2.
C29_Witness ==
  /\ spc["s1"] = "push" /\ spend["s1"] # NoQuote /\ spend["s1"].n = 2
  /\ Len(providerCh["s1"]) = SinkCap
  /\ Head(providerCh["s1"]).n = 1
  /\ pc["s1"] = "select"

PollerAtGuards ==
  Unresolvable =>
    /\ pc[Poller] \in {"wait", "poll", "stopped"}
    /\ quote[Poller] = NoQuote /\ snap[Poller] = <<>>
    /\ \A a \in AlertIds : notifBy[Poller][a] = 0
    /\ clientsMu # Poller

\* The tick that fails the guard returns to the select of the loop, and
\* the next tick can start there.
GuardEndsTickOnly ==
  /\ Unresolvable /\ pc[Poller] = "poll" /\ pc'[Poller] # "poll" =>
       pc'[Poller] = "wait" /\ pollRuns' = pollRuns - 1
  /\ pc'[Poller] = "stopped" /\ pc[Poller] # "stopped" =>
       pc[Poller] = "wait" /\ pollCtxDone

InBroadcastLoop(e) == pc[e] \in {"bloop", "bwriting"}

\* One broadcast at most ranges over the client set, and it holds the lock.
OneBroadcastAtATime ==
  /\ Cardinality({e \in Evaluators : InBroadcastLoop(e)}) <= 1
  /\ \A e \in Evaluators : InBroadcastLoop(e) => clientsMu = e

\* A step that changes the client set inserts or deletes one connection,
\* the one of the handler that takes the step, while nobody holds the lock
\* and no broadcast ranges over the set.
MutationAlone ==
  clients' # clients =>
    /\ clientsMu = NoOne /\ clientsMu' = NoOne
    /\ \A e \in Evaluators : ~InBroadcastLoop(e)
    /\ \E s \in Sessions :
         /\ pc'[s] # pc[s]
         /\ clients' = clients \cup {s} \/ clients' = clients \ {s}

C32_StoredAlertsValid ==
  \A i \in DOMAIN alerts :
    alerts[i].condition \in {"above", "below"} /\ alerts[i].price > 0

\* C33: for one trigger of a session no connection is written a second
\* alert message: the broadcast that follows the direct write does not
\* write to a connection the alert message of this trigger was written to.
C33_OneAlertMessageEach ==
  \A s \in Sessions :
    pc[s] = "bwriting" /\ bKind[s] = "alert" => bCur[s] \notin alertTo[s]

\* C34: the alert of a notification that an evaluator hands to the
\* dispatcher is triggered in the store at that moment, whatever the
\* result of TriggerAlert was.
C34_NotifiedAlertIsTriggered ==
  \A e \in Evaluators :
    pc[e] = "notify" => alerts[snap[e][aidx[e]]].triggered

\* C35: a GetOrCreateConfig call that started after an UpdateConfig
\* returned returns the configuration of that update or of a later one.
C35_ReadsSeeReturnedUpdate ==
  \A g \in Getters : gpc[g] = "done" => gval[g].ver >= gSince[g]

\* C36: a GetOrCreateConfig call returns no notification channel whose
\* deletion had returned when the call started.
C36_DeletedChannelNotReturned ==
  \A g \in Getters : gpc[g] = "done" => gval[g].channels \subseteq gChan[g]

\* The channel at position i of the list is enabled, has the type of the
\* notification among its events, and has a registered notifier.
Qualifies(i) ==
  /\ dChannels[i].enabled
  /\ dType \in dChannels[i].events
  /\ dChannels[i].type \in RegisteredNotifiers

ReturningPcs == {"cancel", "dereg", "close", "returned"}

\* A session has evaluated only quotes whose write succeeded, and one that
\* left on a write error is returning, outside any evaluation.
NoEvalAfterFailedWrite ==
  \A s \in Sessions :
    /\ evaluatedQ[s] \subseteq deliveredQ[s]
    /\ exitVia[s] = "writeerror" =>
         /\ pc[s] \in ReturningPcs
         /\ quote[s] = NoQuote /\ snap[s] = <<>> /\ aidx[s] = 0

\* The step on which the write of a quote fails goes to the return, and
\* neither it nor any later step of that session marks an alert,
\* broadcasts or hands a notification to the dispatcher.
FailedWriteEndsSession ==
  \A s \in Sessions :
    /\ pc[s] = "qwriting" /\ ~WriteOk(s) /\ pc'[s] # pc[s] =>
         /\ pc'[s] = "cancel" /\ exitVia'[s] = "writeerror"
         /\ alerts' = alerts /\ notifBy'[s] = notifBy[s]
    /\ exitVia[s] = "writeerror" =>
         /\ notifBy'[s] = notifBy[s] /\ evaluatedQ'[s] = evaluatedQ[s]
         /\ sending'[s] = sending[s]
         /\ clientsMu' # s /\ bKind'[s] = bKind[s]
         /\ \A a \in AlertIds : alerts'[a].triggered = alerts[a].triggered

\* C38: a session whose write of a quote fails returns without evaluating
\* that quote: it marks no alert triggered, broadcasts nothing and hands
\* no notification to the dispatcher for it.
C38_FailedWriteSkipsEvaluation ==
  []NoEvalAfterFailedWrite /\ [][FailedWriteEndsSession]_vars

\* The session tracked AAPL, whose every quote crosses an active alert; the
\* write of its first quote failed and it has returned: nothing was
\* evaluated, no alert is triggered and no notification was made.
C38_Witness ==
  /\ cfgSyms["s1"] = <<"AAPL">>
  /\ exitVia["s1"] = "writeerror" /\ pc["s1"] = "returned"
  /\ pushed["s1"] >= 1 /\ deliveredQ["s1"] = {} /\ evaluatedQ["s1"] = {}
  /\ \A a \in AlertIds : ~alerts[a].triggered /\ notifBy["s1"][a] = 0

====
